---- MODULE Spec2Model ----
(***************************************************************************)
(* Verification model of the Graphiti memory adapter.                      *)
(*                                                                         *)
(*   SpecRetry   the retry loop of CleaningHTTPTransport                   *)
(*               (app/services/graphiti_client.py)                         *)
(*   SpecClean   the interception of a status-200 response by the same     *)
(*               transport: the cleaning of the model's output             *)
(*   SpecRoute   the choice of backend by DualModelRoutingTransport         *)
(*   SpecIngest  the pending-episode lifecycle: /memory/append, the        *)
(*               deferred add_episode task and the retry sweep             *)
(*               (app/api/v1/memory.py, app/main.py, graphiti_client.py)   *)
(*   SpecBackup  create_backup / restore_backup over the graph store       *)
(*               (app/services/backup_service.py, app/api/v1/admin.py)     *)
(*   SpecDelete  delete_episode / delete_file_episodes over the same store *)
(*   SpecDeleteUser  SpecIngest with DELETE /admin/users/{user_id}         *)
(*   SpecRouted  one DualModelRoutingTransport call: routing, then retries *)
(*   SpecDeleteListed  the lifecycle with DELETE /admin/episodes/{uuid}    *)
(*   SpecReprocess  reprocess_user over the processed episodes             *)
(*               (app/services/reprocessing_service.py)                    *)
(*   SpecLoads   json.loads after the module replaced it                   *)
(*   SpecSweep   retry_pending_episodes_loop and the tasks it starts       *)
(*               (app/main.py)                                             *)
(*                                                                         *)
(* The specifications share one list of variables; each one moves    *)
(* its own group and leaves the other groups unchanged.                    *)
(***************************************************************************)
EXTENDS Integers, Sequences, FiniteSets, TLC

VARIABLES
    \* ---- CleaningHTTPTransport.handle_async_request, one call ----
    tpc,        \* position in the retry loop
    now,        \* time.time() - start_time, in seconds
    attempts,   \* calls of super().handle_async_request made so far
    sleeps,     \* calls of asyncio.sleep(RETRY_INTERVAL) made so far
    history,    \* outcome of every upstream attempt, in order
    result,     \* index in history of the response handed to the caller
    upstream,   \* the body of the status-200 response being intercepted
    returned,   \* the response handed back after the interception
    \* ---- DualModelRoutingTransport.handle_async_request, one call ----
    routing,    \* the base URLs, keys and fast model the transport holds
    request,    \* the request the transport was called with
    forwarded,  \* the request passed on to CleaningHTTPTransport
    \* ---- pending-episode lifecycle ----
    requests,     \* /memory/append calls answered so far, in order
    pendingStore, \* the PendingEpisode nodes of the graph store
    episodic,     \* the Episodic nodes written by the deferred processing
    tasks,        \* every add_episode task started so far, with its position
    sweeper,      \* retry_pending_episodes_loop: alive, iterations, last one
    \* ---- backup / restore ----
    store,      \* the graph store: Episodic nodes, Entity nodes, relationships
    archive,    \* the archive last downloaded or chosen for upload
    picks,      \* archives downloaded or chosen so far
    origin,     \* where the archive comes from: the store and user exported
    restores,   \* restores made so far
    before,     \* the store as it was when the last restore was called
    call,       \* the arguments of the last restore
    response    \* the RestoreResponse of the last restore

routeVars == <<routing, request, forwarded>>

retryVars ==
    <<tpc, now, attempts, sleeps, history, result, upstream, returned,
      routeVars>>

ingestVars == <<requests, pendingStore, episodic, tasks, sweeper>>

backupVars ==
    <<store, archive, picks, origin, restores, before, call, response>>

vars == <<retryVars, ingestVars, backupVars>>

(***************************************************************************)
(*                 Resilient transport: the retry loop                     *)
(***************************************************************************)

TIMEOUT == 30

RETRY_INTERVAL == 5

\* Durations of one upstream attempt that the model explores (seconds).
FastAttempt == 0

SlowAttempt == 10

HungAttempt == 30

Durations == {FastAttempt, SlowAttempt, HungAttempt}

\* Status codes the upstream may answer with.
Statuses == {200, 404, 429, 500, 503}

\* An upstream attempt either produces a response or raises.
Outcomes ==
    [kind : {"response"}, status : Statuses]
        \cup {[kind |-> "exception", status |-> 0]}

\* response.status_code < 400: leave the loop
IsSuccess(status) == status < 400

IsClientError_Only400(status) == status = 400

IsClientError_All4xx(status) == 400 <= status /\ status < 500

\* 400 <= response.status_code < 500 and response.status_code != 429
IsClientError(status) == 400 <= status /\ status < 500 /\ status # 429

BudgetExhausted_Never(elapsed) == elapsed >= 2 * TIMEOUT

BudgetExhausted_After(elapsed) == elapsed > TIMEOUT

\* elapsed >= TIMEOUT
BudgetExhausted(elapsed) == elapsed >= TIMEOUT

AfterAttempt_RaiseOnExhaust(o, elapsed) ==
    IF o.kind = "response" /\ (IsSuccess(o.status) \/ IsClientError(o.status))
    THEN "returned"
    ELSE IF BudgetExhausted(elapsed) THEN "raised" ELSE "sleeping"

AfterAttempt_RaiseAtOnce(o, elapsed) ==
    IF o.kind = "response"
    THEN IF IsSuccess(o.status) \/ IsClientError(o.status) THEN "returned"
         ELSE IF BudgetExhausted(elapsed) THEN "returned" ELSE "sleeping"
    ELSE "raised"

\* Position after an attempt with outcome o that ended at elapsed.
AfterAttempt(o, elapsed) ==
    IF o.kind = "response"
    THEN IF IsSuccess(o.status) THEN "returned"
         ELSE IF IsClientError(o.status) THEN "returned"
         ELSE IF BudgetExhausted(elapsed) THEN "returned"
         ELSE "sleeping"
    ELSE IF BudgetExhausted(elapsed) THEN "raised"
         ELSE "sleeping"

\* No ingest traffic: the value of the lifecycle variables in SpecRetry.
\* The retry loop as startup_event starts it.
SweeperIdle == [alive |-> TRUE, sweeps |-> 0, outcome |-> "none"]

IngestIdle ==
    /\ requests = <<>>
    /\ pendingStore = {}
    /\ episodic = {}
    /\ tasks = <<>>
    /\ sweeper = SweeperIdle

NoArchive ==
    [metadata |-> [kind |-> "none", user_id |-> <<>>],
     episodes |-> [kind |-> "missing", items |-> <<>>],
     entities |-> [kind |-> "missing", items |-> <<>>],
     edges |-> [kind |-> "missing", items |-> <<>>]]

NoStore == [episodes |-> {}, entities |-> {}, rels |-> {}]

NoOrigin == [exported |-> FALSE, store |-> NoStore, user_id |-> <<>>,
             fresh |-> FALSE, imports |-> 0]

NoCall == [made |-> FALSE, archive |-> NoArchive, replace |-> FALSE,
           new_user_id |-> <<>>]

NoResponse ==
    [status |-> "none", user_id |-> <<>>,
     episodes_created |-> 0, entities_created |-> 0, edges_created |-> 0,
     conflicts_skipped |-> 0]

\* No backup traffic on an empty store: the value of the backup variables
\* in SpecRetry and SpecIngest.
BackupIdle ==
    /\ store = NoStore
    /\ archive = NoArchive
    /\ picks = 0
    /\ origin = NoOrigin
    /\ restores = 0
    /\ before = NoStore
    /\ call = NoCall
    /\ response = NoResponse

(***************************************************************************)
(*          Response cleaning: the text of the model's output              *)
(***************************************************************************)

\* A text is a sequence of tokens.  A token is one character of JSON
\* punctuation, a double quote, a run of whitespace, a run of word
\* characters (\w+), or a triple backtick.
Quote == "<quote>"

Fence == "<fence>"

Space == " "

Newline == "<newline>"

\* What json.dumps writes for a quote and for a newline inside a string.
EscQuote == "<escaped quote>"

EscNewline == "<escaped newline>"

\* Word tokens that are JSON numbers, and the other word tokens.
Numbers == {"1", "2"}

Names ==
    {"json", "hello", "name", "entity_name", "entity", "A", "B", "entities",
     "extracted_entities", "facts", "edges", "extracted_edges",
     "entity_resolutions", "duplicates", "source_entity_id",
     "target_entity_id", "relation_type", "summary", "k"}

IsWord(t) == t \in Numbers \cup Names

\* str.isspace
IsSpace(t) == t \in {Space, Newline}

MinOf(S) == CHOOSE x \in S : \A y \in S : x <= y

MaxOf(S) == CHOOSE x \in S : \A y \in S : x >= y

\* str.strip()
strip(s) ==
    LET keep == {i \in DOMAIN s : ~IsSpace(s[i])}
    IN IF keep = {} THEN <<>> ELSE SubSeq(s, MinOf(keep), MaxOf(keep))

\* str.find(t): the first position of t, 0 when there is none (Python: -1).
find(s, t) ==
    LET at == {i \in DOMAIN s : s[i] = t}
    IN IF at = {} THEN 0 ELSE MinOf(at)

\* str.rfind(t)
rfind(s, t) ==
    LET at == {i \in DOMAIN s : s[i] = t}
    IN IF at = {} THEN 0 ELSE MaxOf(at)

\* s.strip().startswith(t)
StartsWithToken(s, t) == strip(s) # <<>> /\ strip(s)[1] = t

\* The tokens of s at the positions in keep, in order.
RECURSIVE Select(_, _, _)
Select(s, keep, i) ==
    IF i > Len(s) THEN <<>>
    ELSE (IF i \in keep THEN <<s[i]>> ELSE <<>>) \o Select(s, keep, i + 1)

\* content.replace(fence + "json", "").replace(fence, "")
RemoveFences(s) ==
    LET fences == {i \in DOMAIN s : s[i] = Fence}
        tags == {i \in DOMAIN s : i - 1 \in fences /\ s[i] = "json"}
    IN Select(s, DOMAIN s \ (fences \cup tags), 1)

\* re.search(fence (?:\w+)? \s* (.*?) fence, content, re.DOTALL).group(1): from
\* the first fence, past the word and the whitespace that follow it, up to
\* the next fence.
FencedGroup(s) ==
    LET open == find(s, Fence)
        body == MinOf({i \in (open + 1)..Len(s) : ~IsWord(s[i])})
        text == MinOf({i \in body..Len(s) : ~IsSpace(s[i])})
        close == MinOf({i \in text..Len(s) : s[i] = Fence})
    IN SubSeq(s, text, close - 1)

\* 1. Clean Markdown/XML
StripFence(content) ==
    LET fences == {i \in DOMAIN content : content[i] = Fence}
    IN IF fences = {} THEN content
       ELSE IF Cardinality(fences) >= 2 THEN strip(FencedGroup(content))
       ELSE strip(RemoveFences(content))

\* 2. Extract JSON structure (find first { or [ and last } or ])
ExtractStructure(content) ==
    LET start_brace == find(content, "{")
        start_bracket == find(content, "[")
        brace_first == start_brace # 0
                         /\ (start_bracket = 0 \/ start_brace < start_bracket)
        start_idx == IF brace_first THEN start_brace ELSE start_bracket
        end_char == IF brace_first THEN "}" ELSE "]"
        end_idx == rfind(content, end_char)
    IN IF start_idx # 0 /\ end_idx # 0 /\ end_idx > start_idx
       THEN SubSeq(content, start_idx, end_idx)
       ELSE content

\* ---- JSON values, json.loads and json.dumps ----

\* A parsed value: a str, a number, a list, or a dict, which keeps its keys
\* in insertion order.
JStr(text) == [k |-> "str", v |-> text]

JNum(t) == [k |-> "num", v |-> <<t>>]

JList(items) == [k |-> "list", v |-> items]

JDict(pairs) == [k |-> "dict", v |-> pairs]

Pair(key, val) == [key |-> key, val |-> val]

isinstance(x, type) == x.k = type

\* key in d
HasKey(d, key) == \E i \in DOMAIN d.v : d.v[i].key = key

\* d[key]
Get(d, key) == d.v[MinOf({i \in DOMAIN d.v : d.v[i].key = key})].val

\* d[key] = val: an existing key keeps its place, a new key goes last.
DictSet(d, key, val) ==
    IF HasKey(d, key)
    THEN JDict([i \in DOMAIN d.v |->
                   IF d.v[i].key = key THEN Pair(key, val) ELSE d.v[i]])
    ELSE JDict(Append(d.v, Pair(key, val)))

\* d.pop(key), the dict that is left
DictPop(d, key) ==
    JDict(Select(d.v, {i \in DOMAIN d.v : d.v[i].key # key}, 1))

\* d[new] = d.pop(old)
RenameKey(d, old, new) == DictSet(DictPop(d, old), new, Get(d, old))

ParseError == [ok |-> FALSE, val |-> JStr(<<>>), next |-> 0]

Parsed(val, next) == [ok |-> TRUE, val |-> val, next |-> next]

\* The first position from i on that holds no whitespace.
SkipSpace(s, i) ==
    MinOf({j \in i..(Len(s) + 1) : j = Len(s) + 1 \/ ~IsSpace(s[j])})

At(s, i, t) == i <= Len(s) /\ s[i] = t

Unescape(text) ==
    [i \in DOMAIN text |->
        IF text[i] = EscQuote THEN Quote
        ELSE IF text[i] = EscNewline THEN Newline
        ELSE text[i]]

Escape(text) ==
    [i \in DOMAIN text |->
        IF text[i] = Quote THEN EscQuote
        ELSE IF text[i] = Newline THEN EscNewline
        ELSE text[i]]

\* A string: from a quote to the next quote, with no raw newline between.
ParseString(s, i) ==
    IF ~At(s, i, Quote) THEN ParseError
    ELSE LET closing == {j \in (i + 1)..Len(s) : s[j] = Quote}
             close == MinOf(closing)
         IN IF closing = {} THEN ParseError
            ELSE IF \E j \in (i + 1)..(close - 1) : s[j] = Newline
            THEN ParseError
            ELSE Parsed(JStr(Unescape(SubSeq(s, i + 1, close - 1))),
                        close + 1)

RECURSIVE ParseValue(_, _)
RECURSIVE ParseMembers(_, _, _)
RECURSIVE ParseElements(_, _, _)
\* The value that starts at position i.
ParseValue(s, i) ==
    IF i > Len(s) THEN ParseError
    ELSE IF s[i] = Quote THEN ParseString(s, i)
    ELSE IF s[i] \in Numbers THEN Parsed(JNum(s[i]), i + 1)
    ELSE IF s[i] = "{"
    THEN LET j == SkipSpace(s, i + 1)
         IN IF At(s, j, "}") THEN Parsed(JDict(<<>>), j + 1)
            ELSE ParseMembers(s, j, JDict(<<>>))
    ELSE IF s[i] = "["
    THEN LET j == SkipSpace(s, i + 1)
         IN IF At(s, j, "]") THEN Parsed(JList(<<>>), j + 1)
            ELSE ParseElements(s, j, <<>>)
    ELSE ParseError

\* "key": value pairs separated by commas, up to the closing brace.
ParseMembers(s, i, acc) ==
    LET key == ParseString(s, i)
        colon == SkipSpace(s, key.next)
        val == ParseValue(s, SkipSpace(s, colon + 1))
        after == SkipSpace(s, val.next)
        dict == DictSet(acc, key.val.v, val.val)
    IN IF ~key.ok THEN ParseError
       ELSE IF ~At(s, colon, ":") THEN ParseError
       ELSE IF ~val.ok THEN ParseError
       ELSE IF At(s, after, "}") THEN Parsed(dict, after + 1)
       ELSE IF At(s, after, ",")
       THEN ParseMembers(s, SkipSpace(s, after + 1), dict)
       ELSE ParseError

\* Values separated by commas, up to the closing bracket.
ParseElements(s, i, acc) ==
    LET val == ParseValue(s, i)
        after == SkipSpace(s, val.next)
        items == Append(acc, val.val)
    IN IF ~val.ok THEN ParseError
       ELSE IF At(s, after, "]") THEN Parsed(JList(items), after + 1)
       ELSE IF At(s, after, ",")
       THEN ParseElements(s, SkipSpace(s, after + 1), items)
       ELSE ParseError

\* json.loads as the standard library defines it: one value, whitespace
\* around it, nothing else.  ok = FALSE stands for JSONDecodeError.
_original_json_loads(s) ==
    LET r == ParseValue(s, SkipSpace(s, 1))
    IN IF r.ok /\ SkipSpace(s, r.next) > Len(s) THEN r ELSE ParseError

\* json.loads as the module patches it: the text is cleaned of fences and
\* clipped to its JSON structure before it is parsed.
_patched_json_loads(s) == _original_json_loads(ExtractStructure(StripFence(s)))

RECURSIVE Join(_, _)
Join(parts, sep) ==
    IF parts = <<>> THEN <<>>
    ELSE IF Len(parts) = 1 THEN parts[1]
    ELSE parts[1] \o sep \o Join(Tail(parts), sep)

RECURSIVE dumps(_)
\* json.dumps with the default separators ", " and ": "
dumps(x) ==
    IF x.k = "str" THEN <<Quote>> \o Escape(x.v) \o <<Quote>>
    ELSE IF x.k = "num" THEN x.v
    ELSE IF x.k = "list"
    THEN <<"[">> \o Join([i \in DOMAIN x.v |-> dumps(x.v[i])], <<",", Space>>)
               \o <<"]">>
    ELSE <<"{">>
           \o Join([i \in DOMAIN x.v |->
                       <<Quote>> \o Escape(x.v[i].key) \o <<Quote, ":", Space>>
                          \o dumps(x.v[i].val)],
                   <<",", Space>>)
           \o <<"}">>

\* ---- 3. Fix List vs Object ----

Key(word) == <<word>>

EmptyList == JList(<<>>)

\* The outcome of the structure fixes: the value, whether it was modified
\* and written back to the content with json.dumps, or the TypeError raised
\* on the way.
Fixed(parsed, dumped) == [raised |-> FALSE, dumped |-> dumped, parsed |-> parsed]

FixRaised == [raised |-> TRUE, dumped |-> FALSE, parsed |-> EmptyList]

\* len(parsed) > 0 and isinstance(parsed[0], dict) and ("source_entity_id"
\* in parsed[0] or "relation_type" in parsed[0])
LooksLikeEdges(parsed) ==
    /\ Len(parsed.v) > 0
    /\ isinstance(parsed.v[1], "dict")
    /\ \/ HasKey(parsed.v[1], Key("source_entity_id"))
       \/ HasKey(parsed.v[1], Key("relation_type"))

\* A list is wrapped as edges or as extracted_entities.
WrapList(parsed) ==
    IF LooksLikeEdges(parsed)
    THEN JDict(<<Pair(Key("edges"), parsed),
                 Pair(Key("extracted_entities"), EmptyList)>>)
    ELSE JDict(<<Pair(Key("extracted_entities"), parsed),
                 Pair(Key("edges"), EmptyList)>>)

RenameEntity_KeepsEntityName(entity) ==
    IF ~isinstance(entity, "dict") THEN entity
    ELSE IF HasKey(entity, Key("entity_name"))
    THEN DictSet(entity, Key("name"), Get(entity, Key("entity_name")))
    ELSE IF HasKey(entity, Key("entity"))
    THEN RenameKey(entity, Key("entity"), Key("name"))
    ELSE entity

\* entity["name"] = entity.pop("entity_name"), else the same for "entity"
RenameEntity(entity) ==
    IF ~isinstance(entity, "dict") THEN entity
    ELSE IF HasKey(entity, Key("entity_name"))
    THEN RenameKey(entity, Key("entity_name"), Key("name"))
    ELSE IF HasKey(entity, Key("entity"))
    THEN RenameKey(entity, Key("entity"), Key("name"))
    ELSE entity

\* for entity in parsed["extracted_entities"]: ... (what the loop leaves in
\* the collection; a str or a dict is iterated without effect)
RenameEntities(entities) ==
    IF isinstance(entities, "list")
    THEN JList([i \in DOMAIN entities.v |-> RenameEntity(entities.v[i])])
    ELSE entities

\* entities[0] is a dict with a "duplicates" key
IsResolution(entities) ==
    /\ isinstance(entities, "list")
    /\ Len(entities.v) > 0
    /\ isinstance(entities.v[1], "dict")
    /\ HasKey(entities.v[1], Key("duplicates"))

\* The first fix: a str or a list is wrapped, "entities" is renamed.
FixTop(parsed, wrap_str) ==
    IF wrap_str /\ isinstance(parsed, "str")
    THEN JDict(<<Pair(Key("summary"), parsed),
                 Pair(Key("extracted_entities"), EmptyList)>>)
    ELSE IF isinstance(parsed, "list") THEN WrapList(parsed)
    ELSE IF isinstance(parsed, "dict") /\ HasKey(parsed, Key("entities"))
    THEN RenameKey(parsed, Key("entities"), Key("extracted_entities"))
    ELSE parsed

\* Fix facts -> edges
FixFacts(parsed) ==
    IF isinstance(parsed, "dict") /\ HasKey(parsed, Key("facts"))
    THEN RenameKey(parsed, Key("facts"), Key("edges"))
    ELSE parsed

\* Fix entity_name -> name, then extracted_entities -> entity_resolutions
FixEntities(parsed) ==
    LET renamed == DictSet(parsed, Key("extracted_entities"),
                       RenameEntities(Get(parsed, Key("extracted_entities"))))
    IN IF IsResolution(Get(renamed, Key("extracted_entities")))
       THEN RenameKey(renamed, Key("extracted_entities"),
                      Key("entity_resolutions"))
       ELSE renamed

\* Fix extracted_edges -> edges
FixExtractedEdges(parsed) ==
    IF isinstance(parsed, "dict") /\ HasKey(parsed, Key("extracted_edges"))
    THEN RenameKey(parsed, Key("extracted_edges"), Key("edges"))
    ELSE parsed

HasEntities(parsed) ==
    isinstance(parsed, "dict") /\ HasKey(parsed, Key("extracted_entities"))

\* Iterating a number raises TypeError.
NotIterable(parsed) ==
    HasEntities(parsed)
        /\ isinstance(Get(parsed, Key("extracted_entities")), "num")

\* The chat-completion path: the extracted_edges rename and the json.dumps
\* of the modified value are inside the `"extracted_entities" in parsed`
\* block.
FixStructureChoices(parsed) ==
    LET facts == FixFacts(FixTop(parsed, TRUE))
        last == FixExtractedEdges(FixEntities(facts))
    IN IF NotIterable(facts) THEN FixRaised
       ELSE IF HasEntities(facts) THEN Fixed(last, last # parsed)
       ELSE Fixed(facts, FALSE)

\* The output-array path: no str case; every fix is at the top level.
FixStructureOutput(parsed) ==
    LET facts == FixFacts(FixTop(parsed, FALSE))
        last == FixExtractedEdges(
                    IF HasEntities(facts) THEN FixEntities(facts) ELSE facts)
    IN IF NotIterable(facts) THEN FixRaised
       ELSE Fixed(last, last # parsed)

\* ---- repair of truncated JSON, plain-text wrap ----

\* Common suffixes to try
suffixes ==
    << <<"}">>, <<"]">>, <<"}", "}">>, <<"]", "}">>, <<"}", "]">>,
       <<"}", "}", "}">>, <<"}", "}", "]">>, <<"}", "]", "}">>,
       <<"]", "}", "}">>, <<"]", "}", "]">>, <<"]", "]", "}">>,
       <<"]", "]", "]">>, <<Quote, "}">>, <<Quote, "]">>,
       <<Quote, "]", "}">>, <<Quote, "]", "}", "]">>,
       <<Quote, "]", "}", Newline, "]", "}">>,
       <<"}", Newline, "]", "}">> >>

Repair_LastCandidate(content) ==
    LET good == {i \in DOMAIN suffixes :
                    _patched_json_loads(content \o suffixes[i]).ok}
    IN IF good = {} THEN content ELSE content \o suffixes[MaxOf(good)]

\* for suffix in suffixes: the first one with which json.loads succeeds is
\* appended; the content is left as it is when there is none.
Repair(content) ==
    LET good == {i \in DOMAIN suffixes :
                    _patched_json_loads(content \o suffixes[i]).ok}
    IN IF good = {} THEN content ELSE content \o suffixes[MinOf(good)]

\* json.dumps({"summary": content.strip(), "extracted_entities": [],
\* "edges": []})
WrapPlainText(content) ==
    dumps(JDict(<<Pair(Key("summary"), JStr(strip(content))),
                  Pair(Key("extracted_entities"), EmptyList),
                  Pair(Key("edges"), EmptyList)>>))

Cleaned(content) == [raised |-> FALSE, content |-> content]

CleanRaised == [raised |-> TRUE, content |-> <<>>]

\* 3. Fix List vs Object, on the value json.loads gave.  path is "choices"
\* or "output".
FixStructure(path, parsed) ==
    IF path = "choices" THEN FixStructureChoices(parsed)
    ELSE FixStructureOutput(parsed)

\* The content after step 3: the dump of the fixed value when json.loads
\* succeeded and a fix was made, the repaired content when it failed on a
\* content that starts with { or [.
Structured(clipped, loaded, fix) ==
    IF loaded.ok
    THEN IF fix.dumped THEN dumps(fix.parsed) ELSE clipped
    ELSE IF StartsWithToken(clipped, "{") \/ StartsWithToken(clipped, "[")
    THEN Repair(clipped)
    ELSE clipped

\* if content and not content.strip().startswith('{') and not
\* content.strip().startswith('['): wrap plain text
WrapIfPlain(content) ==
    IF content # <<>> /\ ~StartsWithToken(content, "{")
                      /\ ~StartsWithToken(content, "[")
    THEN WrapPlainText(content)
    ELSE content

CleanFixed_SwallowsTypeError(clipped, loaded, fix) ==
    IF loaded.ok /\ fix.raised THEN Cleaned(WrapPlainText(clipped))
    ELSE Cleaned(WrapIfPlain(Structured(clipped, loaded, fix)))

\* A TypeError raised by the fixes leaves the try block of step 3 and the
\* interception altogether.
CleanFixed(clipped, loaded, fix) ==
    IF loaded.ok /\ fix.raised THEN CleanRaised
    ELSE Cleaned(WrapIfPlain(Structured(clipped, loaded, fix)))

CleanLoaded(path, clipped, loaded) ==
    CleanFixed(clipped, loaded, FixStructure(path, loaded.val))

\* Step 3 and the wrap of plain text, on the content steps 1 and 2 left.
CleanClipped(path, clipped) ==
    CleanLoaded(path, clipped, _patched_json_loads(clipped))

\* Steps 1 to 3 and the wrap of plain text on a non-empty str content.
CleanContent(path, original_content) ==
    CleanClipped(path, ExtractStructure(StripFence(original_content)))

\* ---- the response body ----

JNull == [k |-> "null", v |-> <<>>]

\* An element of data["choices"] or data["output"].  form says how far the
\* path to its text exists:
\*   choices: "ok" (["message"]["content"] exists), "nondict", "nocontent"
\*   output:  "ok" (["content"][0]["text"] exists), "nondict", "nocontent",
\*            "emptycontent" (content == []), "notext"
Item(form, type, text) == [form |-> form, type |-> type, text |-> text]

\* data["choices"], data["output"]: not there, a number, or a list.
Absent == [kind |-> "absent", items |-> <<>>]

NumberField == [kind |-> "number", items |-> <<>>]

ListField(items) == [kind |-> "list", items |-> items]

\* shape: "garbage" (not JSON), "list" (JSON, not an object), "dict".
Body(shape, choices, output) ==
    [shape |-> shape, choices |-> choices, output |-> output]

\* if content: (None, "" and 0 are falsy)
Truthy(text) == text.k = "num" \/ (text.k = "str" /\ text.v # <<>>)

\* What handle_async_request hands back: the upstream response itself, or
\* a new response built around the re-encoded data.
Original(body) == [made |-> TRUE, fresh |-> FALSE, body |-> body]

Rebuilt(body) == [made |-> TRUE, fresh |-> TRUE, body |-> body]

\* if content != original_content: the cleaned content is written where
\* the content was read and the data is re-encoded.  field is "choices"
\* or "output".
WriteBack(body, field, index, cleaned) ==
    IF cleaned.raised THEN Original(body)
    ELSE IF cleaned.content # body[field].items[index].text.v
    THEN Rebuilt([body EXCEPT
             ![field].items[index].text = JStr(cleaned.content)])
    ELSE Original(body)

\* The chat-completion shape: data["choices"][0]["message"]["content"].
InterceptChoices(body) ==
    LET item == body.choices.items[1]
    IN IF item.form # "ok" THEN Original(body)
       ELSE IF ~Truthy(item.text) THEN Original(body)
       ELSE IF item.text.k # "str" THEN Original(body)
       ELSE WriteBack(body, "choices", 1,
                      CleanContent("choices", item.text.v))

\* A selection that stops at the first dict whose type is not "reasoning",
\* whether or not it carries a text.
SelectOutput_FirstNonReasoning(items) ==
    LET found == {i \in DOMAIN items :
                     items[i].form # "nondict" /\ items[i].type # "reasoning"}
    IN IF found = {} \/ items[MinOf(found)].form # "ok" THEN 0
       ELSE MinOf(found)

\* The entry the loop over data["output"] stops at, 0 when it stops at
\* none: the first dict whose type is not "reasoning" and that has a
\* non-empty content whose first element has a text.
SelectOutput(items) ==
    LET found == {i \in DOMAIN items :
                     /\ items[i].form = "ok"
                     /\ items[i].type # "reasoning"}
    IN IF found = {} THEN 0 ELSE MinOf(found)

\* The index the text is read from: the entry the loop stopped at, or
\* entry 0 (here 1) when content is still None after the loop.
OutputIndex(items, stop) ==
    IF stop = 0 THEN 1
    ELSE IF items[stop].text.k = "null" THEN 1
    ELSE stop

\* The output-array shape, once the index is known.
InterceptOutputAt(body, output_index) ==
    LET item == body.output.items[output_index]
    IN IF item.form # "ok" THEN Original(body)
       ELSE IF ~Truthy(item.text) THEN Original(body)
       ELSE IF item.text.k # "str" THEN Original(body)
       ELSE WriteBack(body, "output", output_index,
                      CleanContent("output", item.text.v))

\* The output-array shape: data["output"][output_index]["content"][0]["text"].
InterceptOutput(body) ==
    InterceptOutputAt(body, OutputIndex(body.output.items,
                                        SelectOutput(body.output.items)))

\* # Intercept response: what is handed back for a status-200 response
\* with this body.
InterceptResponse(body) ==
    IF body.shape # "dict" THEN Original(body)
    ELSE IF body.choices.kind = "number" THEN Original(body)
    ELSE IF body.choices.kind = "list" /\ Len(body.choices.items) > 0
    THEN InterceptChoices(body)
    ELSE IF body.output.kind = "number" THEN Original(body)
    ELSE IF body.output.kind = "list" /\ Len(body.output.items) > 0
    THEN InterceptOutput(body)
    ELSE Original(body)

\* The retry loop is followed by status only: the body of the response is
\* not looked at before the loop is left (SpecClean follows the body).
NoBody == Body("none", Absent, Absent)

NoReturn == [made |-> FALSE, fresh |-> FALSE, body |-> NoBody]

NoRequest == [method |-> "none"]

\* No routing decision in progress: the value of the routing variables
\* outside SpecRoute.
RouteIdle ==
    /\ routing = [fast_model |-> <<>>]
    /\ request = NoRequest
    /\ forwarded = NoRequest

InitRetry ==
    /\ tpc = "attempt"
    /\ now = 0
    /\ attempts = 0
    /\ sleeps = 0
    /\ history = <<>>
    /\ result = 0
    /\ upstream = NoBody
    /\ returned = NoReturn
    /\ RouteIdle
    /\ IngestIdle
    /\ BackupIdle

Sent_RoutedOnce(routed, original, attempt) ==
    IF attempt = 1 THEN routed ELSE original

\* The request an attempt passes to the parent transport: the one the call
\* was entered with, in every iteration.
Sent(routed, original, attempt) == routed

\* One pass through the body of `while True`: the upstream attempt, which
\* takes dur seconds and ends with outcome o, and the decision that follows.
CallUpstream(o, dur) ==
    /\ tpc = "attempt"
    /\ LET ended == now + dur
           pos == AfterAttempt(o, ended)
       IN /\ now' = ended
          /\ attempts' = attempts + 1
          /\ history' = Append(history,
                 [kind |-> o.kind, status |-> o.status,
                  started |-> now, ended |-> ended,
                  sent |-> Sent(forwarded, request, attempts + 1)])
          /\ tpc' = pos
          /\ result' = IF pos = "returned" THEN attempts + 1 ELSE result
    /\ UNCHANGED <<sleeps, upstream, returned, routeVars, ingestVars,
                   backupVars>>

\* await asyncio.sleep(RETRY_INTERVAL), then the next iteration.
BackoffSleep ==
    /\ tpc = "sleeping"
    /\ now' = now + RETRY_INTERVAL
    /\ sleeps' = sleeps + 1
    /\ tpc' = "attempt"
    /\ UNCHANGED <<attempts, history, result, upstream, returned, routeVars,
                   ingestVars, backupVars>>

NextRetry ==
    \/ \E o \in Outcomes, dur \in Durations : CallUpstream(o, dur)
    \/ BackoffSleep

SpecRetry == InitRetry /\ [][NextRetry]_vars

\* The call under the assumption that every upstream attempt completes and
\* every asyncio.sleep returns.
SpecRetryFair == SpecRetry /\ WF_vars(NextRetry)

(***************************************************************************)
(*        Response cleaning: interception of a status-200 response         *)
(***************************************************************************)

\* Bounds of the exploration: the depth of the containers a truncated
\* output leaves open, and the number of entries of an output array.
MaxOpen == 4

MaxOutput == 2

String(word) == JStr(<<word>>)

Object1(key, val) == JDict(<<Pair(Key(key), val)>>)

Object2(key1, val1, key2, val2) ==
    JDict(<<Pair(Key(key1), val1), Pair(Key(key2), val2)>>)

List1(val) == JList(<<val>>)

EntityA == Object1("name", String("A"))

NamedA == Object1("entity_name", String("A"))

Fact == Object1("relation_type", String("k"))

\* The values a model may answer with as well-formed JSON.
ModelValues ==
    << EmptyList,
       List1(EntityA),
       List1(NamedA),
       JList(<<EntityA, NamedA>>),
       List1(Object1("entity", String("A"))),
       List1(Object1("source_entity_id", JNum("1"))),
       List1(Object1("target_entity_id", JNum("1"))),
       List1(Fact),
       JList(<<EntityA, Fact>>),
       List1(JNum("1")),
       List1(String("A")),
       JDict(<<>>),
       Object1("summary", String("hello")),
       Object1("entities", List1(NamedA)),
       Object1("entities", List1(EntityA)),
       Object1("extracted_entities", List1(EntityA)),
       Object1("extracted_entities", List1(NamedA)),
       Object1("extracted_entities",
               List1(Object2("entity_name", String("A"),
                             "name", String("B")))),
       Object1("extracted_entities",
               List1(Object2("entity_name", String("A"),
                             "duplicates", EmptyList))),
       Object1("entities",
               List1(Object2("duplicates", EmptyList,
                             "entity_name", String("A")))),
       Object1("extracted_entities", JNum("1")),
       Object1("extracted_entities", String("A")),
       Object1("facts", List1(Fact)),
       Object1("extracted_edges", List1(Fact)),
       Object2("entities", List1(NamedA), "facts", List1(Fact)),
       Object2("extracted_entities", List1(EntityA),
               "extracted_edges", List1(Fact)),
       Object2("facts", List1(Fact), "edges", EmptyList),
       Object2("entities", List1(NamedA),
               "extracted_entities", List1(EntityA)),
       String("hello"),
       JStr(<<"hello", Space, "{", "k", "}">>),
       JNum("1") >>

WellFormed == {dumps(ModelValues[i]) : i \in DOMAIN ModelValues}

\* Text that is not JSON: prose, prose around or with braces and brackets,
\* blank text.
Prose ==
    { <<"hello">>,
      <<"hello", Space, "A">>,
      <<"hello", Space, "{", "k", "}", Space, "A">>,
      <<"hello", Space, "[", "k", "]">>,
      <<"hello", Space, "{", "k">>,
      <<"hello", Newline>> \o dumps(Object1("entities", List1(NamedA))),
      dumps(List1(EntityA)) \o <<Space, "hello">>,
      <<Space>> }

\* The containers a truncated text leaves open, outermost first.
OpenStacks == UNION {[1..n -> {"{", "["}] : n \in 1..MaxOpen}

RECURSIVE Opened(_, _)
\* The text that opens the containers of stack from level i on.
Opened(stack, i) ==
    IF i > Len(stack) THEN <<>>
    ELSE (IF stack[i] = "{" THEN <<"{", Quote, "k", Quote, ":", Space>>
          ELSE <<"[">>) \o Opened(stack, i + 1)

\* The output cut right after a complete key-value pair (the value 1 of
\* the innermost object, or an object that is an element of the innermost
\* list), or inside a string.
Truncated(stack, tail) ==
    Opened(stack, 1)
       \o (IF tail = "string" THEN <<Quote, "A">>
           ELSE IF stack[Len(stack)] = "{" THEN <<"1">>
           ELSE dumps(EntityA))

TruncatedTexts ==
    {Truncated(stack, tail) : stack \in OpenStacks, tail \in {"pair", "string"}}

Unfenced == WellFormed \cup Prose \cup TruncatedTexts

\* c inside a fence with a language tag.
Fenced(c) == <<Fence, "json", Newline>> \o c \o <<Newline, Fence>>

\* Other uses of the fence: no tag, no closing fence, a fence inside.
OddFences ==
    { <<Fence, Newline>> \o dumps(List1(EntityA)) \o <<Newline, Fence>>,
      <<Fence, "hello", Fence>>,
      <<Fence, "json", Newline>> \o dumps(List1(EntityA)),
      <<"hello", Space, Fence, "A">>,
      <<"hello", Space, Fence, "A", Fence, Space, "B">> }

Contents == Unfenced \cup {Fenced(c) : c \in Unfenced} \cup OddFences

Message(c) == Item("ok", "message", JStr(c))

\* The entries an output array is made of.
OutputItems ==
    { Message(dumps(List1(EntityA))),
      Message(<<"hello">>),
      Item("ok", "reasoning", JStr(<<"hello", Space, "A">>)),
      Item("ok", "unknown", JStr(dumps(List1(Fact)))),
      Item("ok", "message", JStr(<<>>)),
      Item("ok", "message", JNull),
      Item("ok", "message", JNum("1")),
      Item("nocontent", "message", JNull),
      Item("emptycontent", "message", JNull),
      Item("notext", "message", JNull),
      Item("nocontent", "reasoning", JNull),
      Item("nondict", "unknown", JNull) }

OutputArrays == UNION {[1..n -> OutputItems] : n \in 1..MaxOutput}

ChoiceItems ==
    { Item("ok", "message", JStr(<<>>)),
      Item("ok", "message", JNull),
      Item("ok", "message", JNum("1")),
      Item("nocontent", "message", JNull),
      Item("nondict", "unknown", JNull) }

ChoicesBody(c) == Body("dict", ListField(<<Message(c)>>), Absent)

OutputBody(items) == Body("dict", Absent, ListField(items))

\* The bodies a status-200 response may carry.
Bodies ==
    {ChoicesBody(c) : c \in Contents}
       \cup {OutputBody(<<Message(c)>>) : c \in Contents}
       \cup {OutputBody(items) : items \in OutputArrays}
       \cup {Body("dict", ListField(<<item>>), Absent) : item \in ChoiceItems}
       \cup {Body("dict", ListField(<<Message(<<"hello">>),
                                      Message(<<"A">>)>>), Absent),
             Body("dict", ListField(<<>>),
                  ListField(<<Message(<<"hello">>)>>)),
             Body("dict", ListField(<<Message(<<"hello">>)>>),
                  ListField(<<Message(<<"A">>)>>)),
             Body("dict", ListField(<<>>), Absent),
             Body("dict", Absent, ListField(<<>>)),
             Body("dict", NumberField, Absent),
             Body("dict", Absent, NumberField),
             Body("dict", Absent, Absent),
             Body("list", Absent, Absent),
             Body("garbage", Absent, Absent)}

InitClean ==
    /\ tpc = "attempt"
    /\ now = 0
    /\ attempts = 0
    /\ sleeps = 0
    /\ history = <<>>
    /\ result = 0
    /\ upstream = NoBody
    /\ returned = NoReturn
    /\ RouteIdle
    /\ IngestIdle
    /\ BackupIdle

\* Statuses with which the loop is left at the first attempt, and the
\* headers of the upstream response.
FirstAttemptStatuses == {200, 201, 404}

HeaderSets == {<<"content-type">>, <<"content-type", "x-request-id">>}

UpstreamResponse(status, headers, body) ==
    [status |-> status, headers |-> headers, body |-> body]

\* The responses the upstream may answer with: every body under status
\* 200, a body the normalizer would change under the other statuses.
Responses ==
    {UpstreamResponse(200, headers, body) :
        headers \in HeaderSets, body \in Bodies}
      \cup {UpstreamResponse(status, headers, body) :
               status \in FirstAttemptStatuses \ {200},
               headers \in HeaderSets,
               body \in {ChoicesBody(dumps(List1(EntityA))),
                         OutputBody(<<Message(<<"hello">>)>>),
                         Body("garbage", Absent, Absent)}}

HandBack_FreshHeaders(received, handed) ==
    [made |-> TRUE, fresh |-> handed.fresh, body |-> handed.body,
     status |-> received.status,
     headers |-> IF handed.fresh THEN <<"content-type">>
                 ELSE received.headers]

\* return response, or return httpx.Response(status_code=
\* response.status_code, headers=response.headers, content=new_body, ...)
HandBack(received, handed) ==
    [made |-> TRUE, fresh |-> handed.fresh, body |-> handed.body,
     status |-> received.status, headers |-> received.headers]

\* if response.status_code == 200: intercept; otherwise return response
AfterLoop(received) ==
    IF received.status = 200
    THEN HandBack(received, InterceptResponse(received.body))
    ELSE HandBack(received, Original(received.body))

\* handle_async_request when the loop is left at the first attempt: the
\* response is intercepted if its status is 200 and handed back.
handle_async_request(received) ==
    /\ tpc = "attempt"
    /\ attempts = 0
    /\ attempts' = 1
    /\ history' = <<[kind |-> "response", status |-> received.status,
                     headers |-> received.headers,
                     started |-> now, ended |-> now]>>
    /\ result' = 1
    /\ tpc' = "returned"
    /\ upstream' = received.body
    /\ returned' = AfterLoop(received)
    /\ UNCHANGED <<now, sleeps, routeVars, ingestVars, backupVars>>

NextClean == \E received \in Responses : handle_async_request(received)

SpecClean == InitClean /\ [][NextClean]_vars

(***************************************************************************)
(*           Dual-model routing: the backend a request is sent to          *)
(***************************************************************************)

\* urlparse(url): scheme, netloc (host and port), path and query.
Url(scheme, netloc, path, query) ==
    [scheme |-> scheme, netloc |-> netloc, path |-> path, query |-> query]

MainBaseUrl == Url("https", "main:443", "/v1", "")

\* The fast backend: the main one, or one with another scheme, host, port
\* and path.
FastBaseUrls == {MainBaseUrl, Url("http", "fast:11434", "/api/v1", "")}

ApiKeys == {"sk-main", "sk-fast"}

\* settings.LLM_FAST_MODEL is any str.
FastModels == {<<"fast">>, <<>>}

Routings ==
    [main_base_url : {MainBaseUrl}, main_api_key : {"sk-main"},
     fast_base_url : FastBaseUrls, fast_api_key : ApiKeys,
     fast_model : FastModels]

\* Bytes that are not UTF-8.
Undecodable == <<"<invalid utf-8>">>

\* The request bodies: objects with and without a model, other JSON
\* values, text that is not JSON, no body, bytes that cannot be decoded.
RequestContents ==
    { dumps(Object1("model", String("fast"))),
      dumps(Object1("model", String("main"))),
      dumps(Object1("model", JStr(<<>>))),
      dumps(Object1("model", JNum("1"))),
      dumps(Object2("k", JNum("1"), "model", String("fast"))),
      dumps(Object1("k", String("fast"))),
      dumps(JDict(<<>>)),
      dumps(List1(Object1("model", String("fast")))),
      dumps(String("fast")),
      <<"fast">>,
      <<"{", Quote, "model", Quote, ":", Space, Quote, "fast", Quote>>,
      <<>>,
      Undecodable }

Bearer(key) == <<"Bearer", key>>

\* The requests the OpenAI client hands to the transport: addressed to the
\* main backend, with the main key or without an Authorization header.
Requests ==
    [method : {"POST", "GET"},
     url : {Url(MainBaseUrl.scheme, MainBaseUrl.netloc, path, query) :
               path \in {"/v1/chat/completions", "/v1/models"},
               query \in {"", "a=1"}},
     authorization : {Bearer("sk-main"), <<>>},
     content : RequestContents]

\* body = request.content.decode('utf-8') if request.content else "{}";
\* _original_json_loads(body); a value that is not a dict, and a body that
\* does not parse, count as {}.
RequestData(content) ==
    LET loaded == _original_json_loads(IF content = <<>> THEN <<"{", "}">>
                                       ELSE content)
    IN IF loaded.ok /\ isinstance(loaded.val, "dict") THEN loaded.val
       ELSE JDict(<<>>)

\* data.get("model", "")
RequestModel(data) ==
    IF HasKey(data, Key("model")) THEN Get(data, Key("model"))
    ELSE JStr(<<>>)

\* if model == self.fast_model, unless decoding the body has raised
MatchesFastModel(content, fast_model) ==
    /\ content # Undecodable
    /\ RequestModel(RequestData(content)) = JStr(fast_model)

\* urlunparse((fast_parsed.scheme, fast_parsed.netloc, req_parsed.path,
\* ..., req_parsed.query, ...)) when the base URLs differ
RoutedUrl(url, cfg) ==
    IF cfg.fast_base_url # cfg.main_base_url
    THEN Url(cfg.fast_base_url.scheme, cfg.fast_base_url.netloc,
             url.path, url.query)
    ELSE url

\* The request handed to the parent class.
Route(req, cfg) ==
    IF MatchesFastModel(req.content, cfg.fast_model)
    THEN [req EXCEPT !.url = RoutedUrl(req.url, cfg),
                     !.authorization = Bearer(cfg.fast_api_key)]
    ELSE req

InitRoute ==
    /\ routing \in Routings
    /\ request = NoRequest
    /\ forwarded = NoRequest
    /\ tpc = "idle"
    /\ now = 0
    /\ attempts = 0
    /\ sleeps = 0
    /\ history = <<>>
    /\ result = 0
    /\ upstream = NoBody
    /\ returned = NoReturn
    /\ IngestIdle
    /\ BackupIdle

\* DualModelRoutingTransport.handle_async_request up to the call of the
\* parent class.
route_request(req) ==
    /\ request = NoRequest
    /\ request' = req
    /\ forwarded' = Route(req, routing)
    /\ UNCHANGED <<routing, tpc, now, attempts, sleeps, history, result,
                   upstream, returned, ingestVars, backupVars>>

NextRoute == \E req \in Requests : route_request(req)

SpecRoute == InitRoute /\ [][NextRoute]_vars

\* response = await super().handle_async_request(request): the retry loop
\* of the parent class is entered with the routed request.
CallParent ==
    /\ request # NoRequest
    /\ tpc = "idle"
    /\ tpc' = "attempt"
    /\ UNCHANGED <<now, attempts, sleeps, history, result, upstream, returned,
                   routeVars, ingestVars, backupVars>>

\* One call of DualModelRoutingTransport from the routing to the end of
\* the retry loop, with upstream attempts of ten seconds.
NextRouted ==
    \/ \E req \in Requests : route_request(req)
    \/ CallParent
    \/ \E o \in Outcomes : CallUpstream(o, SlowAttempt)
    \/ BackoffSleep

SpecRouted == InitRoute /\ [][NextRouted]_vars

(***************************************************************************)
(*                Episode lifecycle: pending -> processed                  *)
(***************************************************************************)

\* Bounds of the exploration.
MaxReq == 2

MaxTasks == 3

\* User ids are texts; "a_b" has "a_" as a prefix.
Users == {<<"a">>, <<"a", "_", "b">>}

Texts == {"t1", "t2"}

NoFile == "none"

Files == {NoFile, "doc"}

\* No transport call in progress: the value of the retry variables outside
\* SpecRetry.
RetryIdle ==
    /\ tpc = "idle"
    /\ now = 0
    /\ attempts = 0
    /\ sleeps = 0
    /\ history = <<>>
    /\ result = 0
    /\ upstream = NoBody
    /\ returned = NoReturn
    /\ RouteIdle

InitIngest ==
    /\ IngestIdle
    /\ RetryIdle
    /\ BackupIdle

PendingMatches_UserOnly(p, user_id, text) == p.user_id = user_id

\* WHERE p.user_id = $user_id AND p.content = $text
PendingMatches(p, user_id, text) == p.user_id = user_id /\ p.content = text

\* save_pending_episode: CREATE (p:PendingEpisode {...}); an exception of
\* the store is logged and None is returned.
save_pending_episode(pend, uuid, user_id, text, file_name, storeOk) ==
    IF storeOk
    THEN pend \cup {[uuid |-> uuid, user_id |-> user_id, content |-> text,
                      file_name |-> file_name, old |-> FALSE]}
    ELSE pend

\* delete_pending_episode: DETACH DELETE every match; an exception of the
\* store is logged and swallowed.
delete_pending_episode(pend, user_id, text, storeOk) ==
    IF storeOk
    THEN {p \in pend : ~PendingMatches(p, user_id, text)}
    ELSE pend

\* episode_id = str(uuid.uuid4()) in append_memory, for its r-th call: a
\* draw of its own, apart from the one save_pending_episode makes for the
\* uuid of the node.
EpisodeIdOf(r) == <<"append_memory", r>>

\* POST /memory/append: the pending write, then the deferred add_episode is
\* scheduled and ok=true is answered with the id drawn at the start.
append_memory(user_id, text, file_name, storeOk) ==
    /\ Len(requests) < MaxReq
    /\ Len(tasks) < MaxTasks
    /\ LET r == Len(requests) + 1 IN
       /\ pendingStore' = save_pending_episode(pendingStore, r, user_id, text,
                                               file_name, storeOk)
       /\ requests' = Append(requests,
              [user_id |-> user_id, text |-> text, file_name |-> file_name,
               saved |-> storeOk, ok |-> TRUE, id |-> EpisodeIdOf(r)])
       /\ tasks' = Append(tasks,
              [req |-> r, user_id |-> user_id, text |-> text,
               file_name |-> file_name, retry |-> FALSE, pc |-> "start"])
    /\ UNCHANGED <<episodic, sweeper, retryVars, backupVars>>

\* add_episode, step 2: await self.client.add_episode(...).  The library
\* writes the Episodic node or raises.
GraphitiAddEpisode(i, ok) ==
    /\ i \in DOMAIN tasks
    /\ tasks[i].pc = "start"
    /\ IF ok
       THEN /\ episodic' = episodic \cup
                   {[name |-> i, group_id |-> tasks[i].user_id,
                     content |-> tasks[i].text, file_name |-> NoFile]}
            /\ tasks' = [tasks EXCEPT ![i].pc =
                   IF tasks[i].file_name # NoFile THEN "tag" ELSE "cleanup"]
       ELSE /\ episodic' = episodic
            /\ tasks' = [tasks EXCEPT ![i].pc = "failed"]
    /\ UNCHANGED <<requests, pendingStore, sweeper, retryVars, backupVars>>

\* add_episode, step 3: SET e.file_name = $file_name on the episode just
\* written; an exception of the store propagates.
TagFileName(i, ok) ==
    /\ i \in DOMAIN tasks
    /\ tasks[i].pc = "tag"
    /\ IF ok
       THEN /\ episodic' = {IF e.name = i
                            THEN [e EXCEPT !.file_name = tasks[i].file_name]
                            ELSE e : e \in episodic}
            /\ tasks' = [tasks EXCEPT ![i].pc = "cleanup"]
       ELSE /\ episodic' = episodic
            /\ tasks' = [tasks EXCEPT ![i].pc = "failed"]
    /\ UNCHANGED <<requests, pendingStore, sweeper, retryVars, backupVars>>

\* add_episode, step 4: delete_pending_episode(user_id, text), then return.
CleanupPending(i, storeOk) ==
    /\ i \in DOMAIN tasks
    /\ tasks[i].pc = "cleanup"
    /\ pendingStore' = delete_pending_episode(pendingStore, tasks[i].user_id,
                                              tasks[i].text, storeOk)
    /\ tasks' = [tasks EXCEPT ![i].pc = "done"]
    /\ UNCHANGED <<requests, episodic, sweeper, retryVars, backupVars>>

\* get_stuck_pending_episodes: the records older than the cutoff; an
\* exception of the store gives the empty list.
get_stuck_pending_episodes(pend, storeOk) ==
    IF storeOk THEN {p \in pend : p.old} ELSE {}

RECURSIVE RetryTasks(_)
\* One add_episode task per stuck record, with the metadata the sweep
\* builds: {"source": ..., "role": "user", "retry": True}.
RetryTasks(stuck) ==
    IF stuck = {} THEN <<>>
    ELSE LET p == CHOOSE q \in stuck : \A o \in stuck : q.uuid <= o.uuid
         IN <<[req |-> p.uuid, user_id |-> p.user_id, text |-> p.content,
               file_name |-> NoFile, retry |-> TRUE, pc |-> "start"]>>
              \o RetryTasks(stuck \ {p})

\* One iteration of retry_pending_episodes_loop.
retry_pending_episodes_loop(storeOk) ==
    LET stuck == get_stuck_pending_episodes(pendingStore, storeOk) IN
    /\ stuck # {}
    /\ Len(tasks) + Cardinality(stuck) <= MaxTasks
    /\ tasks' = tasks \o RetryTasks(stuck)
    /\ UNCHANGED <<requests, pendingStore, episodic, sweeper,
                   retryVars, backupVars>>

\* Time passes: a pending record becomes older than the 30 minute cutoff.
BecomeStuck(p) ==
    /\ p \in pendingStore
    /\ ~p.old
    /\ pendingStore' = (pendingStore \ {p}) \cup {[p EXCEPT !.old = TRUE]}
    /\ UNCHANGED <<requests, episodic, tasks, sweeper, retryVars, backupVars>>

NextIngest ==
    \/ \E u \in Users, t \in Texts, f \in Files, ok \in BOOLEAN :
           append_memory(u, t, f, ok)
    \/ \E i \in 1..MaxTasks, ok \in BOOLEAN : GraphitiAddEpisode(i, ok)
    \/ \E i \in 1..MaxTasks, ok \in BOOLEAN : TagFileName(i, ok)
    \/ \E i \in 1..MaxTasks, ok \in BOOLEAN : CleanupPending(i, ok)
    \/ \E ok \in BOOLEAN : retry_pending_episodes_loop(ok)
    \/ \E p \in pendingStore : BecomeStuck(p)

SpecIngest == InitIngest /\ [][NextIngest]_vars

(***************************************************************************)
(*                     Graph store and backup / restore                    *)
(***************************************************************************)

\* Bounds of the exploration.
MaxEpisodes == 2

MaxEntities == 2

MaxRestores == 2

MaxArchives == 1

\* StartsWith(s, prefix): the Cypher STARTS WITH / str.startswith test.
StartsWith(s, prefix) ==
    Len(prefix) <= Len(s) /\ SubSeq(s, 1, Len(prefix)) = prefix

\* f"{user_id}_"
UserPrefix(user_id) == user_id \o <<"_">>

\* Timestamps.  A value is a Neo4j DateTime, a string or null; the number
\* is the instant.
DateTime(k) == [kind |-> "datetime", v |-> k]

Str(k) == [kind |-> "string", v |-> k]

Null == [kind |-> "null", v |-> 0]

\* Cypher toString(): the canonical text of a DateTime, a string as it is,
\* null for null.
toString(x) == IF x.kind = "null" THEN Null ELSE Str(x.v)

\* Cypher `x = y` inside CASE WHEN: true only for two non-null values of
\* the same type with the same value.
CypherEq(x, y) == x.kind # "null" /\ y.kind # "null" /\ x = y

\* uuids: one name space per kind of record.
EpisodeId(i) == [kind |-> "episode", id |-> i]

EntityId(j) == [kind |-> "entity", id |-> j]

EdgeId(j, k) == [kind |-> "edge", id |-> 10 * j + k]

MentionId(i, j) == [kind |-> "mention", id |-> 10 * i + j]

EmptyStore == [episodes |-> {}, entities |-> {}, rels |-> {}]

TsToken == <<"T1", "T2", "T3", "T4">>

\* The Episodic node add_episode writes for user_id as its i-th episode:
\* name = f"{user_id}_{timestamp}", group_id = user_id.
EpisodicNode(i, user_id) ==
    [uuid |-> EpisodeId(i), name |-> UserPrefix(user_id) \o <<TsToken[i]>>,
     group_id |-> user_id, content |-> "t1", created_at |-> DateTime(i)]

\* An Entity node written by the graph-construction library.
EntityNode(j) ==
    [uuid |-> EntityId(j), name |-> "entity", created_at |-> DateTime(j)]

\* (episode)-[:MENTIONS]->(entity), as the library writes it and as
\* delete_episode / delete_file_episodes read it.
MentionsRel(i, j) ==
    [uuid |-> MentionId(i, j), type |-> "MENTIONS", src |-> EpisodeId(i),
     dst |-> EntityId(j), created_at |-> DateTime(i)]

\* (entity)-[:RELATES_TO]->(entity): a fact.
RelatesToRel(j, k) ==
    [uuid |-> EdgeId(j, k), type |-> "RELATES_TO", src |-> EntityId(j),
     dst |-> EntityId(k), created_at |-> DateTime(j)]

\* The stores the library can have built: episodes 1..ne with any owners,
\* entities 1..nn, any mentions, any facts from a lower to a higher entity.
LibraryStores ==
    UNION {
      UNION {
        UNION {
          { [episodes |-> {EpisodicNode(i, owner[i]) : i \in 1..ne},
             entities |-> {EntityNode(j) : j \in 1..nn},
             rels |-> {MentionsRel(m[1], m[2]) : m \in ms}
                        \cup {RelatesToRel(f[1], f[2]) : f \in fs}]
            : ms \in SUBSET ((1..ne) \X (1..nn)) }
          : fs \in SUBSET {f \in (1..nn) \X (1..nn) : f[1] < f[2]} }
        : owner \in [1..ne -> Users] }
      : ne \in 0..MaxEpisodes, nn \in 0..MaxEntities }

\* All orders in which a query may return the rows of S.
Orderings(S) ==
    {s \in [1..Cardinality(S) -> S] : \A x \in S : \E i \in DOMAIN s : s[i] = x}

\* ---- export ----

\* MATCH (e:Episodic) WHERE e.name STARTS WITH $user_prefix
ScopedEpisodes(st, user_id) ==
    {e \in st.episodes : StartsWith(e.name, UserPrefix(user_id))}

\* export_user_episodes: e {.*, created_at: toString(e.created_at)}
\* ORDER BY e.created_at
export_user_episodes(st, user_id) ==
    {s \in Orderings({[e EXCEPT !.created_at = toString(e.created_at)]
                         : e \in ScopedEpisodes(st, user_id)}) :
        \A i \in DOMAIN s : \A k \in DOMAIN s :
            i < k => s[i].created_at.v <= s[k].created_at.v}

\* MATCH (e)-[:RELATES_TO]->(entity:Entity)
ExportReachableEntities(st, user_id) ==
    {n \in st.entities :
        \E e \in ScopedEpisodes(st, user_id) : \E r \in st.rels :
            r.type = "RELATES_TO" /\ r.src = e.uuid /\ r.dst = n.uuid}

\* export_user_entities: WITH DISTINCT entity RETURN entity {.*, created_at:
\* toString(entity.created_at)}
export_user_entities(st, user_id) ==
    Orderings({[n EXCEPT !.created_at = toString(n.created_at)]
                  : n \in ExportReachableEntities(st, user_id)})

\* export_user_edges: MATCH (entity1)-[r]-(entity2:Entity) WHERE type(r) <>
\* 'RELATES_TO' WITH DISTINCT r, entity1, entity2.  The pattern has no
\* direction: entity1 is whichever end is reachable.
export_user_edges(st, user_id) ==
    Orderings(
      {[uuid |-> r.uuid, type |-> r.type, source_uuid |-> n1.uuid,
        target_uuid |-> n2.uuid, created_at |-> toString(r.created_at)]
         : <<r, n1, n2>> \in
             {x \in st.rels \X ExportReachableEntities(st, user_id)
                            \X st.entities :
                 /\ x[1].type # "RELATES_TO"
                 /\ \/ x[1].src = x[2].uuid /\ x[1].dst = x[3].uuid
                    \/ x[1].dst = x[2].uuid /\ x[1].src = x[3].uuid}})

\* A data stream of the archive: a JSON list, or an empty, unparseable or
\* absent member.
JsonStream(items) == [kind |-> "json", items |-> items]

EmptyStream == [kind |-> "empty", items |-> <<>>]

GarbageStream == [kind |-> "garbage", items |-> <<>>]

MissingStream == [kind |-> "missing", items |-> <<>>]

\* create_backup: the archives it may produce (one per row order).
create_backup(st, user_id) ==
    {[metadata |-> [kind |-> "json", user_id |-> user_id],
      episodes |-> JsonStream(eps),
      entities |-> JsonStream(ens),
      edges |-> JsonStream(eds)]
       : eps \in export_user_episodes(st, user_id),
         ens \in export_user_entities(st, user_id),
         eds \in export_user_edges(st, user_id)}

\* ---- import ----

NoUser == <<>>

ZeroStats ==
    [episodes_created |-> 0, entities_created |-> 0, edges_created |-> 0,
     conflicts_skipped |-> 0]

\* CASE WHEN e.created_at = $props.created_at THEN 'created' ELSE 'existing'
ImportAction(node, props) ==
    IF CypherEq(node.created_at, props.created_at)
    THEN "created" ELSE "existing"

\* if action == 'created': stats[counter] += 1
\* elif action == 'existing': stats['conflicts_skipped'] += 1
Count(stats, counter, action) ==
    IF action = "created"
    THEN [stats EXCEPT ![counter] = @ + 1]
    ELSE [stats EXCEPT !.conflicts_skipped = @ + 1]

\* MERGE (e:Label {uuid: $uuid}) ON CREATE SET e = $props
MergeNode(nodes, props) ==
    IF \E n \in nodes : n.uuid = props.uuid THEN nodes ELSE nodes \cup {props}

\* The node the MERGE is bound to afterwards.
MergedNode(nodes, props) ==
    CHOOSE n \in MergeNode(nodes, props) : n.uuid = props.uuid

RECURSIVE ImportEntities(_, _, _)
\* for entity in entities: ...
ImportEntities(st, items, stats) ==
    IF items = <<>> THEN [store |-> st, stats |-> stats]
    ELSE LET props == Head(items)
             action == ImportAction(MergedNode(st.entities, props), props)
         IN ImportEntities(
                [st EXCEPT !.entities = MergeNode(st.entities, props)],
                Tail(items),
                Count(stats, "entities_created", action))

RECURSIVE ImportEpisodes(_, _, _)
\* for episode in episodes: ...
ImportEpisodes(st, items, stats) ==
    IF items = <<>> THEN [store |-> st, stats |-> stats]
    ELSE LET props == Head(items)
             action == ImportAction(MergedNode(st.episodes, props), props)
         IN ImportEpisodes(
                [st EXCEPT !.episodes = MergeNode(st.episodes, props)],
                Tail(items),
                Count(stats, "episodes_created", action))

\* The relationship an edge record stands for.
EdgeRel(edge) ==
    [uuid |-> edge.uuid, type |-> edge.type, src |-> edge.source_uuid,
     dst |-> edge.target_uuid, created_at |-> edge.created_at]

\* MERGE (source)-[r:TYPE {uuid: $uuid}]->(target): the relationship of
\* that type, uuid and direction between the two nodes, if there is one.
MatchingRels(rels, edge) ==
    {r \in rels : /\ r.type = edge.type
                  /\ r.uuid = edge.uuid
                  /\ r.src = edge.source_uuid
                  /\ r.dst = edge.target_uuid}

RECURSIVE ImportEdges(_, _, _)
\* for edge in edges: edge_type = edge['type'], which raises KeyError on a
\* record without that key, after the records before it were written;
\* then MATCH source, MATCH target, MERGE ... ON CREATE SET
ImportEdges(st, items, stats) ==
    IF items = <<>> THEN [store |-> st, stats |-> stats, raised |-> FALSE]
    ELSE IF "type" \notin DOMAIN Head(items)
    THEN [store |-> st, stats |-> stats, raised |-> TRUE]
    ELSE LET edge == Head(items)
             endpoints ==
                 /\ \E n \in st.entities : n.uuid = edge.source_uuid
                 /\ \E n \in st.entities : n.uuid = edge.target_uuid
             found == MatchingRels(st.rels, edge)
             rel == IF found = {} THEN EdgeRel(edge)
                    ELSE CHOOSE r \in found : TRUE
         IN IF ~endpoints
            THEN ImportEdges(st, Tail(items), stats)
            ELSE ImportEdges(
                     [st EXCEPT !.rels = IF found = {} THEN @ \cup {rel}
                                         ELSE @],
                     Tail(items),
                     Count(stats, "edges_created", ImportAction(rel, edge)))

\* _import_data with merge=True: entities, then episodes, then edges.
_import_data(st, episodes, entities, edges) ==
    LET a == ImportEntities(st, entities, ZeroStats)
        b == ImportEpisodes(a.store, episodes, a.stats)
    IN ImportEdges(b.store, edges, b.stats)

\* _delete_user_data: the destructive pre-clear restore_backup never calls.
_delete_user_data(st, user_id) ==
    LET eps == {e \in st.episodes : ~StartsWith(e.name, UserPrefix(user_id))}
        ens == {n \in st.entities :
                   \E e \in eps : \E r \in st.rels :
                       r.type = "RELATES_TO" /\ r.src = e.uuid
                       /\ r.dst = n.uuid}
        ids == {e.uuid : e \in eps} \cup {n.uuid : n \in ens}
    IN [episodes |-> eps, entities |-> ens,
        rels |-> {r \in st.rels : r.src \in ids /\ r.dst \in ids}]

\* Replace user_id in the episode name and group_id.
RenameEpisode_KeepsGroup(episode, original_user_id, new_user_id) ==
    LET old == UserPrefix(original_user_id)
    IN IF StartsWith(episode.name, old)
       THEN [episode EXCEPT !.name =
                UserPrefix(new_user_id) \o SubSeq(@, Len(old) + 1, Len(@))]
       ELSE episode

RenameEpisode(episode, original_user_id, new_user_id) ==
    LET old == UserPrefix(original_user_id)
        renamed ==
            IF StartsWith(episode.name, old)
            THEN [episode EXCEPT !.name =
                     UserPrefix(new_user_id)
                        \o SubSeq(@, Len(old) + 1, Len(@))]
            ELSE episode
    IN IF renamed.group_id = original_user_id
       THEN [renamed EXCEPT !.group_id = new_user_id]
       ELSE renamed

ErrorResponse ==
    [status |-> "error", user_id |-> <<"unknown">>,
     episodes_created |-> 0, entities_created |-> 0, edges_created |-> 0,
     conflicts_skipped |-> 0]

\* The list a data stream parses to.  An empty member is the empty list.
StreamItems(stream) == IF stream.kind = "json" THEN stream.items ELSE <<>>

\* The cases in which restore_backup leaves its try block by an exception:
\* no metadata.json or an unparseable one, a data member missing from the
\* archive, or a data member that does not parse (the handler's except
\* clause names original_json, which the module does not define).
RestoreRaises(ar) ==
    \/ ar.metadata.kind # "json"
    \/ \E stream \in {ar.episodes, ar.entities, ar.edges} :
           stream.kind \in {"missing", "garbage"}

restore_backup_HonoursReplace(st, ar, replace, new_user_id) ==
    IF RestoreRaises(ar)
    THEN [store |-> st, response |-> ErrorResponse]
    ELSE LET original_user_id == ar.metadata.user_id
             target_user_id == IF new_user_id # NoUser THEN new_user_id
                               ELSE original_user_id
             eps == StreamItems(ar.episodes)
             episodes ==
                 IF new_user_id # NoUser /\ new_user_id # original_user_id
                 THEN [i \in DOMAIN eps |->
                          RenameEpisode(eps[i], original_user_id, new_user_id)]
                 ELSE eps
             cleared == IF replace THEN _delete_user_data(st, target_user_id)
                        ELSE st
             out == _import_data(cleared, episodes, StreamItems(ar.entities),
                                 StreamItems(ar.edges))
         IN IF out.raised
            THEN [store |-> out.store, response |-> ErrorResponse]
            ELSE [store |-> out.store,
                  response |->
                      [status |-> "success", user_id |-> target_user_id]
                          @@ out.stats]

\* restore_backup(archive_bytes, replace, new_user_id)
restore_backup(st, ar, replace, new_user_id) ==
    IF RestoreRaises(ar)
    THEN [store |-> st, response |-> ErrorResponse]
    ELSE LET original_user_id == ar.metadata.user_id
             target_user_id == IF new_user_id # NoUser THEN new_user_id
                               ELSE original_user_id
             eps == StreamItems(ar.episodes)
             episodes ==
                 IF new_user_id # NoUser /\ new_user_id # original_user_id
                 THEN [i \in DOMAIN eps |->
                          RenameEpisode(eps[i], original_user_id, new_user_id)]
                 ELSE eps
             out == _import_data(st, episodes, StreamItems(ar.entities),
                                 StreamItems(ar.edges))
         IN IF out.raised
            THEN [store |-> out.store, response |-> ErrorResponse]
            ELSE [store |-> out.store,
                  response |->
                      [status |-> "success", user_id |-> target_user_id]
                          @@ out.stats]

\* ---- the admin endpoints ----

\* Archives an administrator may upload that no export produced: records
\* that collide with records of the store, records that are new, an edge
\* in both directions, and damaged members.
UploadedEpisodes ==
    <<[uuid |-> EpisodeId(1), name |-> <<"a", "_", "T1">>, group_id |-> <<"a">>,
       content |-> "edited", created_at |-> Str(1)],
      [uuid |-> EpisodeId(9), name |-> <<"a", "_", "T4">>, group_id |-> <<"a">>,
       content |-> "t2", created_at |-> Str(9)]>>

UploadedEntities ==
    <<[uuid |-> EntityId(1), name |-> "renamed", created_at |-> Str(1)],
      [uuid |-> EntityId(9), name |-> "entity", created_at |-> Str(9)]>>

UploadedEdges ==
    <<[uuid |-> EdgeId(1, 9), type |-> "RELATES_TO",
       source_uuid |-> EntityId(1), target_uuid |-> EntityId(9),
       created_at |-> Str(1)],
      [uuid |-> EdgeId(1, 9), type |-> "RELATES_TO",
       source_uuid |-> EntityId(9), target_uuid |-> EntityId(1),
       created_at |-> Str(1)],
      [uuid |-> EdgeId(1, 2), type |-> "RELATES_TO",
       source_uuid |-> EntityId(1), target_uuid |-> EntityId(2),
       created_at |-> Null]>>

\* An edge record without the key type.
UntypedEdge ==
    [uuid |-> EdgeId(1, 9), source_uuid |-> EntityId(1),
     target_uuid |-> EntityId(9), created_at |-> Str(1)]

FullUpload ==
    [metadata |-> [kind |-> "json", user_id |-> <<"a">>],
     episodes |-> JsonStream(UploadedEpisodes),
     entities |-> JsonStream(UploadedEntities),
     edges |-> JsonStream(UploadedEdges)]

UploadedArchives ==
    {FullUpload,
     [FullUpload EXCEPT !.metadata = [kind |-> "missing", user_id |-> <<>>]],
     [FullUpload EXCEPT !.entities = EmptyStream, !.edges = EmptyStream],
     [FullUpload EXCEPT !.edges = GarbageStream],
     [FullUpload EXCEPT !.episodes = MissingStream],
     [FullUpload EXCEPT !.edges = JsonStream(<<UntypedEdge>>)]}

InitBackup ==
    /\ store \in LibraryStores
    /\ archive = NoArchive
    /\ picks = 0
    /\ origin = NoOrigin
    /\ restores = 0
    /\ before = NoStore
    /\ call = NoCall
    /\ response = NoResponse
    /\ RetryIdle
    /\ IngestIdle

\* GET /admin/users/{user_id}/backup
download_user_backup(user_id) ==
    /\ picks < MaxArchives
    /\ picks' = picks + 1
    /\ \E a \in create_backup(store, user_id) : archive' = a
    /\ origin' = [exported |-> TRUE, store |-> store, user_id |-> user_id,
                  fresh |-> FALSE, imports |-> 0]
    /\ UNCHANGED <<store, restores, before, call, response, retryVars,
                   ingestVars>>

\* The downloaded archive is taken to an instance whose store is empty.
MoveToEmptyStore ==
    /\ origin.exported
    /\ ~origin.fresh
    /\ store' = EmptyStore
    /\ origin' = [origin EXCEPT !.fresh = TRUE, !.imports = 0]
    /\ before' = NoStore
    /\ call' = NoCall
    /\ response' = NoResponse
    /\ UNCHANGED <<archive, picks, restores, retryVars, ingestVars>>

\* The administrator picks a file that is not the downloaded archive.
ChooseUpload(a) ==
    /\ picks < MaxArchives
    /\ picks' = picks + 1
    /\ archive' = a
    /\ origin' = NoOrigin
    /\ UNCHANGED <<store, restores, before, call, response, retryVars,
                   ingestVars>>

\* POST /admin/users/restore: restore_backup(archive_bytes, replace=replace,
\* new_user_id=new_user_id), the response is handed back.
restore_user_backup(replace, new_user_id) ==
    /\ archive # NoArchive
    /\ restores < MaxRestores
    /\ LET out == restore_backup(store, archive, replace, new_user_id) IN
       /\ store' = out.store
       /\ response' = out.response
    /\ before' = store
    /\ call' = [made |-> TRUE, archive |-> archive, replace |-> replace,
                new_user_id |-> new_user_id]
    /\ restores' = restores + 1
    /\ origin' = [origin EXCEPT !.imports = @ + 1]
    /\ UNCHANGED <<archive, picks, retryVars, ingestVars>>

NextBackup ==
    \/ \E u \in Users : download_user_backup(u)
    \/ MoveToEmptyStore
    \/ \E a \in UploadedArchives : ChooseUpload(a)
    \/ \E replace \in BOOLEAN, new_user_id \in Users \cup {NoUser} :
           restore_user_backup(replace, new_user_id)

SpecBackup == InitBackup /\ [][NextBackup]_vars

(***************************************************************************)
(*              Deletion of episodes and of a file's episodes              *)
(***************************************************************************)

\* The stores deletion works on: the library's stores with a file name, or
\* none, on every episode.
FiledStores ==
    { [st EXCEPT !.episodes =
          {[file_name |-> files[e.uuid.id]] @@ e : e \in st.episodes}]
      : st \in LibraryStores, files \in [1..MaxEpisodes -> Files] }

\* DETACH DELETE of the nodes with these uuids: the nodes and every
\* relationship that starts or ends at one of them.
DetachDelete(st, ids) ==
    [episodes |-> {e \in st.episodes : e.uuid \notin ids},
     entities |-> {n \in st.entities : n.uuid \notin ids},
     rels |-> {r \in st.rels : r.src \notin ids /\ r.dst \notin ids}]

\* OPTIONAL MATCH (e)-[:MENTIONS]->(entity:Entity) for e in targets
MentionedBy(st, targets) ==
    {n.uuid : n \in {m \in st.entities :
        \E r \in st.rels : /\ r.type = "MENTIONS"
                           /\ r.src \in targets
                           /\ r.dst = m.uuid}}

\* count of (entity)<-[:MENTIONS]-(:Episodic)
EpisodeRefs(st, id) ==
    Cardinality({r \in st.rels :
        /\ r.type = "MENTIONS"
        /\ r.dst = id
        /\ \E e \in st.episodes : e.uuid = r.src})

OrphanedEntities_AllMentioned(st, candidates) == candidates

\* WHERE other_refs = 0: the candidates no episode mentions any more.
OrphanedEntities(st, candidates) ==
    {id \in candidates : EpisodeRefs(st, id) = 0}

\* The first query of both deletions: the target episodes are deleted, then
\* the entities they mentioned that no other episode mentions.
DeleteWithOrphans(st, targets) ==
    DetachDelete(DetachDelete(st, targets),
                 OrphanedEntities(DetachDelete(st, targets),
                                  MentionedBy(st, targets)))

\* The second query: every RELATES_TO relationship one of whose ends no
\* episode mentions is deleted, whoever it belongs to.
DeleteOrphanedEdges(st) ==
    [st EXCEPT !.rels =
        {r \in @ : r.type = "RELATES_TO" =>
            (EpisodeRefs(st, r.src) # 0 /\ EpisodeRefs(st, r.dst) # 0)}]

\* MATCH (e:Episodic {uuid: $uuid})
EpisodeTargets(st, episode_uuid) ==
    {e.uuid : e \in {x \in st.episodes : x.uuid = episode_uuid}}

\* WHERE e.file_name = $file_name AND (e.name STARTS WITH $user_prefix OR
\* e.group_id = $user_id)
FileTargets(st, user_id, file_name) ==
    {e.uuid : e \in {x \in st.episodes :
        /\ x.file_name = file_name
        /\ \/ StartsWith(x.name, UserPrefix(user_id))
           \/ x.group_id = user_id}}

\* The store after the queries that ran: failing is the number of the
\* query at which the store raises, 0 when none does.
AfterDeletion(st, targets, failing) ==
    IF failing = 1 THEN st
    ELSE IF failing = 2 THEN DeleteWithOrphans(st, targets)
    ELSE DeleteOrphanedEdges(DeleteWithOrphans(st, targets))

\* MATCH (p:PendingEpisode {user_id: $user_id, file_name: $file_name})
\* DETACH DELETE p
DeleteFilePending(pend, user_id, file_name, failing) ==
    IF failing = 0
    THEN {p \in pend : ~(p.user_id = user_id /\ p.file_name = file_name)}
    ELSE pend

InitDelete ==
    /\ store \in FiledStores
    /\ archive = NoArchive
    /\ picks = 0
    /\ origin = NoOrigin
    /\ restores = 0
    /\ before = NoStore
    /\ call = NoCall
    /\ response = NoResponse
    /\ RetryIdle
    /\ IngestIdle

\* delete_episode(episode_uuid): True, or False when a query raises.
delete_episode(episode_uuid, failing) ==
    /\ restores < MaxRestores
    /\ restores' = restores + 1
    /\ before' = store
    /\ call' = [made |-> TRUE, op |-> "delete_episode",
                episode_uuid |-> episode_uuid]
    /\ store' = AfterDeletion(store, EpisodeTargets(store, episode_uuid),
                              failing)
    /\ response' = [status |-> IF failing = 0 THEN "true" ELSE "false"]
    /\ UNCHANGED <<archive, picks, origin, retryVars, ingestVars>>

\* delete_file_episodes(user_id, file_name): True, or False when a query
\* raises.
delete_file_episodes(user_id, file_name, failing) ==
    /\ restores < MaxRestores
    /\ restores' = restores + 1
    /\ before' = store
    /\ call' = [made |-> TRUE, op |-> "delete_file_episodes",
                user_id |-> user_id, file_name |-> file_name]
    /\ store' = AfterDeletion(store, FileTargets(store, user_id, file_name),
                              failing)
    /\ pendingStore' = DeleteFilePending(pendingStore, user_id, file_name,
                                         failing)
    /\ response' = [status |-> IF failing = 0 THEN "true" ELSE "false"]
    /\ UNCHANGED <<archive, picks, origin, sweeper,
                   retryVars, requests, episodic,
                   tasks>>

NextDelete ==
    \/ \E i \in 1..(MaxEpisodes + 1), failing \in 0..2 :
           delete_episode(EpisodeId(i), failing)
    \/ \E u \in Users, f \in Files \ {NoFile}, failing \in 0..3 :
           delete_file_episodes(u, f, failing)

SpecDelete == InitDelete /\ [][NextDelete]_vars

(***************************************************************************)
(*          Deletion of a user while episodes are being processed          *)
(***************************************************************************)

MaxDeletes == 1

\* name = f"{user_id}_{timestamp}" of an episode the deferred task wrote.
EpisodeName(e) == UserPrefix(e.group_id) \o <<"ts">>

\* delete_user, first query: MATCH (e:Episodic) WHERE e.name STARTS WITH
\* $user_prefix ... DETACH DELETE e, n.  PendingEpisode nodes are not
\* Episodic and are linked to the User node only.
DeleteByPrefix(eps, user_id) ==
    {e \in eps : ~StartsWith(EpisodeName(e), UserPrefix(user_id))}

\* delete_user, second query: MATCH (n) WHERE n.group_id = $user_id DETACH
\* DELETE n.  A PendingEpisode has a user_id and no group_id.
DeleteByGroup(eps, user_id) == {e \in eps : e.group_id # user_id}

\* The episodes after the queries that ran: failing is the number of the
\* query at which the store raises, 0 when none does.
AfterDeleteUser(eps, user_id, failing) ==
    IF failing = 1 THEN eps
    ELSE IF failing = 2 THEN DeleteByPrefix(eps, user_id)
    ELSE DeleteByGroup(DeleteByPrefix(eps, user_id), user_id)

\* DELETE /admin/users/{user_id}: ok=true when delete_user returns True, a
\* 500 otherwise.
delete_user(user_id, failing) ==
    /\ restores < MaxDeletes
    /\ restores' = restores + 1
    /\ call' = [made |-> TRUE, op |-> "delete_user", user_id |-> user_id,
                requests |-> Len(requests)]
    /\ episodic' = AfterDeleteUser(episodic, user_id, failing)
    /\ response' = [status |-> IF failing = 0 THEN "true" ELSE "false"]
    /\ UNCHANGED <<requests, pendingStore, tasks, sweeper,
                   retryVars, store, archive,
                   picks, origin, before>>

NextDeleteUser ==
    \/ NextIngest
    \/ \E u \in Users, failing \in 0..2 : delete_user(u, failing)

SpecDeleteUser == InitIngest /\ [][NextDeleteUser]_vars

(***************************************************************************)
(*        Deletion of a listed episode while episodes are processed        *)
(***************************************************************************)

\* The uuid of a PendingEpisode node, uuid_str = str(uuid.uuid4()) in
\* save_pending_episode, and the uuid the library gives the Episodic node
\* a task writes: two different nodes, two different uuids.
PendingUuid(p) == <<"pending", p.uuid>>

EpisodicUuid(e) == <<"episodic", e.name>>

\* get_user_episodes: the processed episodes whose name starts with the
\* prefix and the pending ones of the user, both without a file name.
get_user_episodes(user_id) ==
    {[uuid |-> EpisodicUuid(e), content |-> e.content,
      status |-> "processed"] :
        e \in {x \in episodic :
                 /\ StartsWith(EpisodeName(x), UserPrefix(user_id))
                 /\ x.file_name = NoFile}}
    \cup
    {[uuid |-> PendingUuid(p), content |-> p.content, status |-> "pending"] :
        p \in {x \in pendingStore :
                 x.user_id = user_id /\ x.file_name = NoFile}}

\* Every uuid the listing shows for some user.
ListedUuids == {l.uuid : l \in UNION {get_user_episodes(u) : u \in Users}}

\* delete_episode, first query, on the nodes of the lifecycle: MATCH
\* (e:Episodic {uuid: $uuid}) ... DETACH DELETE e.  A PendingEpisode is
\* not an Episodic node.
DeleteEpisodic(eps, episode_uuid, failing) ==
    IF failing = 1 THEN eps
    ELSE {e \in eps : EpisodicUuid(e) # episode_uuid}

\* DELETE /admin/episodes/{uuid} for a uuid the listing shows: ok when
\* delete_episode returns True, a 500 otherwise.
delete_listed_episode(episode_uuid, failing) ==
    /\ restores < MaxDeletes
    /\ episode_uuid \in ListedUuids
    /\ restores' = restores + 1
    /\ call' = [made |-> TRUE, op |-> "delete_episode",
                episode_uuid |-> episode_uuid,
                written |-> {e.name : e \in episodic}]
    /\ episodic' = DeleteEpisodic(episodic, episode_uuid, failing)
    /\ response' = [status |-> IF failing = 0 THEN "true" ELSE "false"]
    /\ UNCHANGED <<requests, pendingStore, tasks, sweeper, retryVars, store,
                   archive, picks, origin, before>>

\* The lifecycle of the episodes of one user, sent without a file name,
\* and the deletion of a listed episode.
NextDeleteListed ==
    \/ \E t \in Texts, ok \in BOOLEAN : append_memory(<<"a">>, t, NoFile, ok)
    \/ \E i \in 1..MaxTasks, ok \in BOOLEAN : GraphitiAddEpisode(i, ok)
    \/ \E i \in 1..MaxTasks, ok \in BOOLEAN : CleanupPending(i, ok)
    \/ \E ok \in BOOLEAN : retry_pending_episodes_loop(ok)
    \/ \E p \in pendingStore : BecomeStuck(p)
    \/ \E i \in 1..MaxTasks, failing \in 0..2 :
           delete_listed_episode(<<"episodic", i>>, failing)
    \/ \E r \in 1..MaxReq, failing \in 0..2 :
           delete_listed_episode(<<"pending", r>>, failing)

SpecDeleteListed == InitIngest /\ [][NextDeleteListed]_vars

(***************************************************************************)
(*                     Reprocessing a user's episodes                      *)
(***************************************************************************)

\* An Episodic node an earlier add_episode wrote.
ProcessedEpisode(i, user_id, file_name) ==
    [name |-> i, group_id |-> user_id,
     content |-> IF i = 1 THEN "t1" ELSE "t2", file_name |-> file_name]

\* The stores reprocessing starts from: up to MaxEpisodes processed
\* episodes, each of any user and with or without a file name.
ProcessedStores ==
    { {ProcessedEpisode(i, owner[i], file[i]) : i \in 1..n} :
        n \in 0..MaxEpisodes,
        owner \in [1..MaxEpisodes -> Users],
        file \in [1..MaxEpisodes -> Files] }

\* MATCH (e:Episodic) WHERE e.name STARTS WITH $user_prefix ... ORDER BY
\* e.created_at ASC: the rows, oldest first.
ReprocessRows(eps, user_id) ==
    LET rows == {e \in eps : StartsWith(EpisodeName(e), UserPrefix(user_id))}
    IN CHOOSE s \in Orderings(rows) :
           \A i \in DOMAIN s : \A k \in DOMAIN s :
               i < k => s[i].name < s[k].name

\* MATCH (e:Episodic) WHERE e.name STARTS WITH $user_prefix DELETE e
ReprocessDelete(eps, user_id) ==
    {e \in eps : ~StartsWith(EpisodeName(e), UserPrefix(user_id))}

\* A name no episode of the store has.
FreshName(eps) == 1 + MaxOf({0} \cup {e.name : e \in eps})

NotReprocessing == [made |-> FALSE, op |-> "reprocess_user"]

InitReprocess ==
    /\ requests = <<>>
    /\ pendingStore = {}
    /\ episodic \in ProcessedStores
    /\ tasks = <<>>
    /\ sweeper = SweeperIdle
    /\ call = NotReprocessing
    /\ store = NoStore
    /\ archive = NoArchive
    /\ picks = 0
    /\ origin = NoOrigin
    /\ restores = 0
    /\ before = NoStore
    /\ response = NoResponse
    /\ RetryIdle

\* reprocess_user up to its loop: the rows are read, then the episodes are
\* deleted; an exception of either query leaves the function.
ReprocessStart(user_id, failing) ==
    /\ ~call.made
    /\ call' = [made |-> TRUE, op |-> "reprocess_user", user_id |-> user_id,
                present |-> {e \in episodic : e.group_id = user_id},
                episodes |-> ReprocessRows(episodic, user_id),
                i |-> 1, processed |-> 0, errors |-> 0,
                pc |-> IF failing = 0 THEN "loop" ELSE "raised"]
    /\ episodic' = IF failing = 0 THEN ReprocessDelete(episodic, user_id)
                   ELSE episodic
    /\ UNCHANGED <<requests, pendingStore, tasks, sweeper, response, store,
                   archive, picks, origin, restores, before, retryVars>>

\* One iteration of the loop: add_episode with the text and the file name
\* of the row.  The library writes the episode or raises; the tagging
\* query may raise after the episode was written; delete_pending_episode
\* follows a success.
ReprocessEpisode(outcome) ==
    /\ call.made
    /\ call.pc = "loop"
    /\ call.i <= Len(call.episodes)
    /\ LET row == call.episodes[call.i] IN
       /\ outcome = "tag_raises" => row.file_name # NoFile
       /\ episodic' =
             IF outcome = "add_raises" THEN episodic
             ELSE episodic \cup
                    {[name |-> FreshName(episodic),
                      group_id |-> call.user_id,
                      content |-> row.content,
                      file_name |-> IF outcome = "ok" THEN row.file_name
                                    ELSE NoFile]}
       /\ pendingStore' =
             IF outcome = "ok"
             THEN delete_pending_episode(pendingStore, call.user_id,
                                         row.content, TRUE)
             ELSE pendingStore
       /\ call' = [call EXCEPT
             !.i = @ + 1,
             !.processed = IF outcome = "ok" THEN @ + 1 ELSE @,
             !.errors = IF outcome = "ok" THEN @ ELSE @ + 1]
    /\ UNCHANGED <<requests, tasks, sweeper, response, store, archive, picks,
                   origin, restores, before, retryVars>>

\* return {"user_id", "total_episodes", "processed", "errors"}
ReprocessReturn ==
    /\ call.made
    /\ call.pc = "loop"
    /\ call.i > Len(call.episodes)
    /\ call' = [call EXCEPT !.pc = "returned"]
    /\ response' = [status |-> "returned", user_id |-> call.user_id,
                    total_episodes |-> Len(call.episodes),
                    processed |-> call.processed, errors |-> call.errors]
    /\ UNCHANGED <<ingestVars, store, archive, picks, origin, restores,
                   before, retryVars>>

NextReprocess ==
    \/ \E u \in Users, failing \in 0..2 : ReprocessStart(u, failing)
    \/ \E outcome \in {"ok", "add_raises", "tag_raises"} :
           ReprocessEpisode(outcome)
    \/ ReprocessReturn

SpecReprocess == InitReprocess /\ [][NextReprocess]_vars

(***************************************************************************)
(*              The retry loop over the life of the process                *)
(***************************************************************************)

MaxSweeps == 2

MaxPending == 2

\* A PendingEpisode an earlier request left in the store.
PendingRecord(k, old) ==
    [uuid |-> k, user_id |-> <<"a">>, content |-> IF k = 1 THEN "t1" ELSE "t2",
     file_name |-> NoFile, old |-> old]

\* The Pending records the store can hold when the process starts.
LeftOver ==
    { {PendingRecord(k, age[k]) : k \in ks} :
        ks \in SUBSET (1..MaxPending), age \in [1..MaxPending -> BOOLEAN] }

\* How one iteration ends: the stuck records are read and re-submitted; the
\* store rejects the read, which get_stuck_pending_episodes answers with the
\* empty list; an exception is raised inside the try block.
SweepOutcomes == {"ok", "store_error", "raises"}

\* The records one iteration finds.
Found(pend, outcome) ==
    IF outcome = "raises" THEN {}
    ELSE get_stuck_pending_episodes(pend, outcome = "ok")

LoopSurvives_Uncaught(outcome) == outcome # "raises"

\* except Exception as e: logger.error(...), and the loop goes on to its
\* thirty-minute sleep.
LoopSurvives(outcome) == TRUE

InitSweep ==
    /\ requests = <<>>
    /\ pendingStore \in LeftOver
    /\ episodic = {}
    /\ tasks = <<>>
    /\ sweeper = SweeperIdle
    /\ RetryIdle
    /\ BackupIdle

\* One iteration of the while True loop of retry_pending_episodes_loop.
SweepIteration(outcome) ==
    /\ sweeper.alive
    /\ sweeper.sweeps < MaxSweeps
    /\ tasks' = tasks \o RetryTasks(Found(pendingStore, outcome))
    /\ sweeper' = [alive |-> LoopSurvives(outcome),
                   sweeps |-> sweeper.sweeps + 1,
                   outcome |-> outcome]
    /\ UNCHANGED <<requests, pendingStore, episodic, retryVars, backupVars>>

NextSweep ==
    \/ \E outcome \in SweepOutcomes : SweepIteration(outcome)
    \/ \E i \in 1..(MaxSweeps * MaxPending), ok \in BOOLEAN :
           GraphitiAddEpisode(i, ok)
    \/ \E i \in 1..(MaxSweeps * MaxPending), ok \in BOOLEAN :
           CleanupPending(i, ok)
    \/ \E p \in pendingStore : BecomeStuck(p)

\* The loop sleeps and iterates again whatever happens to the tasks it
\* started: its next iteration cannot be put off for ever.
SpecSweep ==
    /\ InitSweep
    /\ [][NextSweep]_vars
    /\ WF_vars(\E outcome \in SweepOutcomes : SweepIteration(outcome))

(***************************************************************************)
(*              json.loads as every caller in the process sees it          *)
(***************************************************************************)

MaxText == 3

\* What the text of a JSON string is made of here: a letter, a blank, the
\* four structure characters and the triple backtick.
TextTokens == {"a", Space, "{", "}", "[", "]", Fence}

Texts34 == UNION {[1..n -> TextTokens] : n \in 0..MaxText}

\* Valid JSON documents: a string, a list that holds it, an object that
\* holds it, as json.dumps writes them.
ValidDocuments ==
    {dumps(JStr(t)) : t \in Texts34}
        \cup {dumps(JList(<<JStr(t)>>)) : t \in Texts34}
        \cup {dumps(JDict(<<Pair(<<"k">>, JStr(t))>>)) : t \in Texts34}

\* A caller is about to load one of the documents.
InitLoads ==
    /\ call \in {[made |-> FALSE, op |-> "json.loads", s |-> s] :
                    s \in ValidDocuments}
    /\ store = NoStore
    /\ archive = NoArchive
    /\ picks = 0
    /\ origin = NoOrigin
    /\ restores = 0
    /\ before = NoStore
    /\ response = NoResponse
    /\ RetryIdle
    /\ IngestIdle

\* json.loads(s) from anywhere in the process, after the module has run
\* json.loads = _patched_json_loads.
json_loads ==
    /\ ~call.made
    /\ call' = [call EXCEPT !.made = TRUE]
    /\ response' = [status |-> "loaded", value |-> _patched_json_loads(call.s)]
    /\ UNCHANGED <<store, archive, picks, origin, restores, before,
                   retryVars, ingestVars>>

NextLoads == json_loads

SpecLoads == InitLoads /\ [][NextLoads]_vars

(***************************************************************************)
(*                      Claims about the retry loop                        *)
(***************************************************************************)

\* The claims speak of statuses, not of the code's predicates.
RetryableStatus(status) == status >= 500 \/ status = 429

NonRetryable4xx(status) == status >= 400 /\ status <= 499 /\ status # 429

\* Attempt i ended in a retryable status before the budget was reached.
RetryableBeforeBudget(i) ==
    /\ history[i].kind = "response"
    /\ RetryableStatus(history[i].status)
    /\ history[i].ended < TIMEOUT

CallEnded == tpc \in {"returned", "raised"}

All503 ==
    \A i \in 1..Len(history) :
        history[i].kind = "response" /\ history[i].status = 503

\* C1: when the first k attempts each end in a retryable status (>= 500 or
\* 429) before the 30 s budget and attempt k+1 answers below 400, the call
\* returns the response of attempt k+1 after exactly k+1 attempts and k
\* sleeps.  The upstream behaviour is explored attempt by attempt, so the
\* claim is stated on every prefix: while only such failures have been seen
\* the call has not ended and has slept once per failure (minus the sleep
\* still to come), and once the answer below 400 arrives the call ends with
\* it.
C1_RetryThenSuccess ==
    LET n == Len(history) IN
    /\ (\A i \in 1..n : RetryableBeforeBudget(i))
          => /\ ~CallEnded
             /\ attempts = n
             /\ sleeps = (IF tpc = "sleeping" THEN n - 1 ELSE n)
    /\ (/\ n >= 1
        /\ \A i \in 1..(n-1) : RetryableBeforeBudget(i)
        /\ history[n].kind = "response"
        /\ history[n].status < 400)
          => /\ tpc = "returned"
             /\ result = n
             /\ attempts = n
             /\ sleeps = n - 1

\* The test's sequence [503, 500, 200]: three attempts, two sleeps.
C1_Witness ==
    /\ tpc = "returned"
    /\ Len(history) = 3
    /\ history[1].status = 503 /\ history[2].status = 500
    /\ history[3].status = 200
    /\ history[2].ended < TIMEOUT
    /\ attempts = 3 /\ sleeps = 2 /\ result = 3

\* C2: a 4xx status other than 429 ends the call at once with that
\* response: it is always the last attempt, no sleep follows it, and as a
\* first attempt it gives one attempt and zero sleeps.
C2_ClientErrorImmediate ==
    LET n == Len(history) IN
    /\ \A i \in 1..n :
          (history[i].kind = "response" /\ NonRetryable4xx(history[i].status))
             => /\ i = n
                /\ tpc = "returned"
                /\ result = i
                /\ attempts = i
                /\ sleeps = i - 1
    /\ (n >= 1 /\ history[1].kind = "response"
               /\ NonRetryable4xx(history[1].status))
          => attempts = 1 /\ sleeps = 0

C2_Witness ==
    /\ tpc = "returned"
    /\ Len(history) = 1
    /\ history[1].status = 404
    /\ attempts = 1 /\ sleeps = 0 /\ result = 1

\* C3 as stated: when every attempt answers 503 and the attempts run past
\* the 30 s budget, the call returns the last 503 without raising and at
\* least one backoff sleep has occurred.
C3_Original ==
    (CallEnded /\ Len(history) >= 1 /\ All503 /\ now >= TIMEOUT)
        => /\ tpc = "returned"
           /\ result = Len(history)
           /\ sleeps >= 1

\* C3 amended: when every attempt answers 503 and the attempts run past the
\* 30 s budget, the call returns the last 503 without raising; at least one
\* backoff sleep has occurred when the first attempt ended before the
\* budget, and none when the first attempt alone used the budget up.
C3_Timeout503 ==
    (CallEnded /\ Len(history) >= 1 /\ All503 /\ now >= TIMEOUT)
        => /\ tpc = "returned"
           /\ result = Len(history)
           /\ history[result].status = 503
           /\ (history[1].ended < TIMEOUT => sleeps >= 1)
           /\ (history[1].ended >= TIMEOUT => sleeps = 0 /\ attempts = 1)

C3_Witness ==
    /\ tpc = "returned"
    /\ Len(history) >= 2
    /\ All503
    /\ now >= TIMEOUT
    /\ sleeps >= 1
    /\ result = Len(history)

HasPendingRecord(r) == \E p \in pendingStore : p.uuid = r

\* Some processing attempt started for request r (the deferred task or a
\* retry of its pending record) has completed successfully.
AttemptSucceeded(r) ==
    \E i \in DOMAIN tasks : tasks[i].req = r /\ tasks[i].pc = "done"

\* C5 as stated: the Pending record of an ingest request is removed if and
\* only if a processing attempt for that request completed successfully,
\* also when other requests of the same user carry identical text.
C5_Original ==
    \A r \in DOMAIN requests :
        requests[r].saved => (~HasPendingRecord(r) <=> AttemptSucceeded(r))

\* C5 amended: a Pending record is removed only by the clean-up step of an
\* add_episode attempt that completes successfully for the same user and
\* the same text (the attempt of its own request or of another request
\* with identical text); a step of an attempt that raises, the sweep and
\* /memory/append never remove a Pending record.
C5_RemovedOnlyBySuccess ==
    [][\A p \in pendingStore :
          (~\E q \in pendingStore' : q.uuid = p.uuid)
             => \E i \in DOMAIN tasks :
                   /\ tasks[i].pc = "cleanup"
                   /\ tasks'[i].pc = "done"
                   /\ tasks[i].user_id = p.user_id
                   /\ tasks[i].text = p.content]_vars

\* Two requests with the same user and text: the first one's attempt
\* succeeded and removed both Pending records, the second one's attempt
\* raised.
C5_Witness ==
    /\ Len(requests) = 2
    /\ requests[1].saved /\ requests[2].saved
    /\ requests[1].user_id = requests[2].user_id
    /\ requests[1].text = requests[2].text
    /\ tasks[1].pc = "done"
    /\ tasks[2].pc = "failed"
    /\ pendingStore = {}

\* C6: for every request acknowledged with ok=true the store holds, in
\* every later state, a Pending record or a processed Episode with that
\* user's text.
C6_AtLeastOnce ==
    \A r \in DOMAIN requests :
        requests[r].ok =>
            \/ \E p \in pendingStore :
                   p.user_id = requests[r].user_id
                   /\ p.content = requests[r].text
            \/ \E e \in episodic :
                   e.group_id = requests[r].user_id
                   /\ e.content = requests[r].text

(***************************************************************************)
(*                    Claims about backup and restore                      *)
(***************************************************************************)

\* The graph of a user as the claims describe it: the episodes whose name
\* is scoped to the user, the entities those episodes mention, and the
\* facts between those entities.
GraphEpisodes(st, user_id) ==
    {e \in st.episodes : StartsWith(e.name, user_id \o <<"_">>)}

GraphEntities(st, user_id) ==
    {n \in st.entities :
        \E e \in GraphEpisodes(st, user_id) : \E r \in st.rels :
            r.type = "MENTIONS" /\ r.src = e.uuid /\ r.dst = n.uuid}

GraphEdges(st, user_id) ==
    {r \in st.rels :
        /\ r.type = "RELATES_TO"
        /\ \E n \in GraphEntities(st, user_id) : n.uuid = r.src
        /\ \E n \in GraphEntities(st, user_id) : n.uuid = r.dst}

\* The exported archive has been restored k times into the empty store.
RoundTrip(k) == origin.exported /\ origin.fresh /\ origin.imports = k

CountN == Cardinality(GraphEpisodes(origin.store, origin.user_id))

CountM == Cardinality(GraphEntities(origin.store, origin.user_id))

CountK == Cardinality(GraphEdges(origin.store, origin.user_id))

\* C7: exporting a user with N episodes, M mentioned entities and K edges
\* between them and restoring the archive into an empty store reports
\* episodes_created = N, entities_created = M, edges_created = K and
\* conflicts_skipped = 0.
C7_FirstImportCounts ==
    RoundTrip(1) =>
        /\ response.status = "success"
        /\ response.episodes_created = CountN
        /\ response.entities_created = CountM
        /\ response.edges_created = CountK
        /\ response.conflicts_skipped = 0

\* C8: restoring the same archive a second time reports nothing created
\* and N + M + K conflicts.
C8_SecondImportCounts ==
    RoundTrip(2) =>
        /\ response.status = "success"
        /\ response.episodes_created = 0
        /\ response.entities_created = 0
        /\ response.edges_created = 0
        /\ response.conflicts_skipped = CountN + CountM + CountK

\* C9: after export and one or more imports the target store holds exactly
\* one Episode, one Entity and one Edge per id of the exported user's
\* graph, each edge between the same source and target; none is missing
\* and none is duplicated.
C9_RoundTripReproduces ==
    (origin.exported /\ origin.fresh /\ origin.imports >= 1) =>
        /\ \A e \in GraphEpisodes(origin.store, origin.user_id) :
              Cardinality({x \in store.episodes : x.uuid = e.uuid}) = 1
        /\ \A n \in GraphEntities(origin.store, origin.user_id) :
              Cardinality({x \in store.entities : x.uuid = n.uuid}) = 1
        /\ \A r \in GraphEdges(origin.store, origin.user_id) :
              /\ Cardinality({x \in store.rels : x.uuid = r.uuid}) = 1
              /\ \E x \in store.rels :
                    x.uuid = r.uuid /\ x.src = r.src /\ x.dst = r.dst
        /\ Cardinality(store.episodes) = CountN
        /\ Cardinality(store.entities) = CountM
        /\ Cardinality(store.rels) = CountK

DegradedStream(stream) ==
    IF stream.kind = "json" THEN stream
    ELSE [kind |-> "json", items |-> <<>>]

DegradedArchive(ar) ==
    [ar EXCEPT !.episodes = DegradedStream(@),
               !.entities = DegradedStream(@),
               !.edges = DegradedStream(@)]

\* C11: with a valid metadata.json, an empty, missing or unparseable data
\* stream is treated as an empty collection: the restore answers success
\* and imports the remaining streams as if the stream were an empty list.
C11_DegradesPerStream ==
    (call.made /\ call.archive.metadata.kind = "json") =>
        /\ response.status = "success"
        /\ restore_backup(before, DegradedArchive(call.archive),
                          call.replace, call.new_user_id)
              = [store |-> store, response |-> response]

(***************************************************************************)
(*                   Claims about response cleaning                        *)
(***************************************************************************)

\* A status-200 response has been handed back.
Intercepted == returned.made /\ returned.status = 200

\* A status-200 response of one of the two shapes, with one entry that
\* carries a non-empty text, has been intercepted.
ChatShape ==
    /\ Intercepted
    /\ upstream.shape = "dict"
    /\ upstream.output.kind = "absent"
    /\ upstream.choices.kind = "list"
    /\ Len(upstream.choices.items) = 1
    /\ upstream.choices.items[1].form = "ok"
    /\ upstream.choices.items[1].text.k = "str"
    /\ upstream.choices.items[1].text.v # <<>>

OutputShape ==
    /\ Intercepted
    /\ upstream.shape = "dict"
    /\ upstream.choices.kind = "absent"
    /\ upstream.output.kind = "list"
    /\ Len(upstream.output.items) = 1
    /\ upstream.output.items[1].form = "ok"
    /\ upstream.output.items[1].type = "message"
    /\ upstream.output.items[1].text.k = "str"
    /\ upstream.output.items[1].text.v # <<>>

\* The content the model produced and the content handed back.
ContentIn ==
    IF ChatShape THEN upstream.choices.items[1].text.v
    ELSE upstream.output.items[1].text.v

ContentOut ==
    IF ChatShape THEN returned.body.choices.items[1].text.v
    ELSE returned.body.output.items[1].text.v

\* Syntactically valid JSON.
ValidJson(text) == _original_json_loads(text).ok

\* C12: for every status-200 response of either shape with non-empty
\* content, the content handed back is syntactically valid JSON, whatever
\* the model produced.
C12_ContentAlwaysJson ==
    (ChatShape \/ OutputShape) => ValidJson(ContentOut)

\* The cases in which the body of the interception raises: a choices or
\* output field that has no length, a first choice or a fallback entry
\* without the path to its text, a text that is a number, and a content
\* whose extracted_entities (or entities) is a number.
NoLength ==
    \/ upstream.choices.kind = "number"
    \/ /\ ~(upstream.choices.kind = "list" /\ upstream.choices.items # <<>>)
       /\ upstream.output.kind = "number"

NoPathToText ==
    \/ /\ upstream.choices.kind = "list"
       /\ upstream.choices.items # <<>>
       /\ \/ upstream.choices.items[1].form # "ok"
          \/ upstream.choices.items[1].text.k = "num"
    \/ /\ upstream.choices.kind = "absent"
       /\ upstream.output.kind = "list"
       /\ upstream.output.items # <<>>
       /\ \A i \in DOMAIN upstream.output.items :
             upstream.output.items[i].form # "ok"

EntitiesIsNumber ==
    /\ ChatShape \/ OutputShape
    /\ LET p == _patched_json_loads(ContentIn)
       IN /\ p.ok
          /\ p.val.k = "dict"
          /\ \E i \in DOMAIN p.val.v :
                /\ p.val.v[i].key \in {<<"entities">>, <<"extracted_entities">>}
                /\ p.val.v[i].val.k = "num"

\* C13: the interception never raises to the caller: a response is handed
\* back for every status-200 body, and when an error occurs inside the
\* interception (a body that is not JSON, missing or wrongly typed fields,
\* a content the fixes cannot iterate) it is the upstream response itself,
\* its body unmodified.
C13_NeverRaises ==
    (tpc = "returned" /\ upstream # NoBody) =>
        /\ returned.made
        /\ ~returned.fresh => returned.body = upstream
        /\ (upstream.shape # "dict" \/ NoLength \/ NoPathToText
               \/ EntitiesIsNumber)
              => (~returned.fresh /\ returned.body = upstream)

\* An internal error of each kind has been met.
C13_Witness ==
    /\ EntitiesIsNumber
    /\ ChatShape
    /\ Len(ContentIn) > 0
    /\ ContentIn[1] = Fence
    /\ returned.made
    /\ returned.body = upstream

\* The value the content parses to, and the value the content handed back
\* parses to.
ValueIn == _original_json_loads(ContentIn).val

ValueOut == _original_json_loads(ContentOut).val

ParsesTo(type) ==
    /\ ChatShape \/ OutputShape
    /\ ValidJson(ContentIn)
    /\ ValueIn.k = type

\* Element 0 looks like a relationship record: it has a source-id or
\* target-id field or a relation_type field.
RelationshipRecord(x) ==
    /\ x.k = "dict"
    /\ \E i \in DOMAIN x.v :
          x.v[i].key \in {<<"source_entity_id">>, <<"target_entity_id">>,
                          <<"relation_type">>}

\* x is a dict with exactly the keys and values of pairs, in any order.
DictOf(x, pairs) ==
    /\ x.k = "dict"
    /\ Len(x.v) = Len(pairs)
    /\ \A i \in DOMAIN pairs : \E j \in DOMAIN x.v :
          x.v[j].key = pairs[i].key /\ dumps(x.v[j].val) = dumps(pairs[i].val)

\* C14: a content that parses to a list is handed back as {"edges": list,
\* "extracted_entities": []} when element 0 looks like a relationship
\* record, and as {"extracted_entities": list, "edges": []} otherwise, in
\* both response shapes (the records of extracted_entities with their
\* entity_name / entity field renamed to name).
C14_ListWrapping ==
    ParsesTo("list") =>
        /\ ValidJson(ContentOut)
        /\ IF ValueIn.v # <<>> /\ RelationshipRecord(ValueIn.v[1])
           THEN DictOf(ValueOut, <<Pair(<<"edges">>, ValueIn),
                                   Pair(<<"extracted_entities">>, JList(<<>>))>>)
           ELSE DictOf(ValueOut,
                       <<Pair(<<"extracted_entities">>, RenameEntities(ValueIn)),
                         Pair(<<"edges">>, JList(<<>>))>>)

\* The content handed back is a dict in which key old of the content has
\* become key new, with the same value.
RenamedTo(old, new) ==
    /\ ValidJson(ContentOut)
    /\ ValueOut.k = "dict"
    /\ ~HasKey(ValueOut, <<old>>)
    /\ HasKey(ValueOut, <<new>>)
    /\ dumps(Get(ValueOut, <<new>>)) = dumps(Get(ValueIn, <<old>>))

\* C15: for a content that parses to an object, facts -> edges and
\* extracted_edges -> edges are applied to the content handed back,
\* whether or not the object also has an entities or extracted_entities
\* key, in both response shapes.
C15_KeyRenames ==
    ParsesTo("dict") =>
        /\ HasKey(ValueIn, <<"facts">>) => RenamedTo("facts", "edges")
        /\ HasKey(ValueIn, <<"extracted_edges">>)
              => RenamedTo("extracted_edges", "edges")

\* The collection of entity records of the content: the value of entities
\* when there is one, else the value of extracted_entities.
HasCollection ==
    /\ ParsesTo("dict")
    /\ HasKey(ValueIn, <<"entities">>) \/ HasKey(ValueIn, <<"extracted_entities">>)

CollectionIn ==
    IF HasKey(ValueIn, <<"entities">>) THEN Get(ValueIn, <<"entities">>)
    ELSE Get(ValueIn, <<"extracted_entities">>)

\* The key under which the collection is handed back.
CollectionKey ==
    IF /\ CollectionIn.v # <<>>
       /\ CollectionIn.v[1].k = "dict"
       /\ HasKey(CollectionIn.v[1], <<"duplicates">>)
    THEN <<"entity_resolutions">>
    ELSE <<"extracted_entities">>

\* after is before with entity_name renamed to name: name has the value
\* entity_name had, entity_name is gone, every other field is as it was.
NameFixed(before_, after) ==
    /\ after.k = "dict"
    /\ ~HasKey(after, <<"entity_name">>)
    /\ HasKey(after, <<"name">>)
    /\ dumps(Get(after, <<"name">>)) = dumps(Get(before_, <<"entity_name">>))
    /\ \A i \in DOMAIN before_.v :
          before_.v[i].key \notin {<<"entity_name">>, <<"name">>}
              => /\ HasKey(after, before_.v[i].key)
                 /\ dumps(Get(after, before_.v[i].key))
                       = dumps(before_.v[i].val)

Clipped == ExtractStructure(StripFence(ContentIn))

\* The transport's json.loads accepts the text.
Accepts(text) == _patched_json_loads(text).ok

\* The candidate suffixes with which the clipped content parses.
Candidates == {i \in DOMAIN suffixes : Accepts(Clipped \o suffixes[i])}

NeedsRepair ==
    /\ ChatShape \/ OutputShape
    /\ Clipped # <<>>
    /\ Clipped[1] \in {"{", "["}
    /\ ~Accepts(Clipped)

\* A JSON object cut right after a complete key-value pair, with at most
\* depth containers left open.
TruncatedObjects(depth) ==
    {Truncated(stack, "pair") :
        stack \in {x \in OpenStacks : Len(x) <= depth /\ x[1] = "{"}}

Repaired ==
    /\ \E i \in DOMAIN suffixes : ContentOut = ContentIn \o suffixes[i]
    /\ ValidJson(ContentOut)

DirectOut(c) ==
    IF ChatShape
    THEN InterceptResponse(ChoicesBody(c)).body.choices.items[1].text.v
    ELSE InterceptResponse(OutputBody(<<Message(c)>>)).body.output.items[1].text.v

\* C18: for any content c, c wrapped in a fence with a language tag is
\* handed back as the same content as c itself.
C18_FenceTransparent ==
    (ChatShape \/ OutputShape) =>
        \A c \in Unfenced : ContentIn = Fenced(c) => ContentOut = DirectOut(c)

\* C19: a content that parses to a plain JSON string s is handed back as
\* the object with summary = s, extracted_entities = [] and edges = [], in
\* the chat-completion shape and in the output-array shape alike.
C19_StringWrapped ==
    ParsesTo("str") =>
        /\ ValidJson(ContentOut)
        /\ DictOf(ValueOut, <<Pair(<<"summary">>, ValueIn),
                              Pair(<<"extracted_entities">>, JList(<<>>)),
                              Pair(<<"edges">>, JList(<<>>))>>)

\* A response that takes the output-array path, with any number of
\* entries.
OutputArrayShape ==
    /\ Intercepted
    /\ upstream.shape = "dict"
    /\ upstream.choices.kind = "absent"
    /\ upstream.output.kind = "list"
    /\ upstream.output.items # <<>>

OutputIn == upstream.output.items

OutputOut == returned.body.output.items

\* The output array in which the text of entry k has been normalized and
\* every other entry is as it came; the array as it came when entry k has
\* no text to normalize.
NormalizedAt(k) ==
    LET item == OutputIn[k]
        cleaned == CleanContent("output", item.text.v)
    IN IF item.form = "ok" /\ item.text.k = "str" /\ item.text.v # <<>>
          /\ ~cleaned.raised
       THEN [OutputIn EXCEPT ![k].text = JStr(cleaned.content)]
       ELSE OutputIn

\* The entries whose type is not reasoning.
NonReasoning ==
    {i \in DOMAIN OutputIn :
        OutputIn[i].form # "nondict" /\ OutputIn[i].type # "reasoning"}

\* The entries whose type is not reasoning and that carry a text field.
WithText ==
    {i \in DOMAIN OutputIn :
        OutputIn[i].form = "ok" /\ OutputIn[i].type # "reasoning"}

UpstreamStatus == history[1].status

UpstreamHeaders == history[1].headers

\* C21: only a status-200 response is normalized; the response handed
\* back has the status and the headers of the upstream response; it is a
\* new response exactly when its body differs from the upstream body, and
\* otherwise, as for every other status, the upstream response as
\* received.
C21_OnlyBodyChanges ==
    returned.made =>
        /\ returned.status = UpstreamStatus
        /\ returned.headers = UpstreamHeaders
        /\ returned.fresh => (UpstreamStatus = 200 /\ returned.body # upstream)
        /\ ~returned.fresh => returned.body = upstream
        /\ UpstreamStatus # 200 => ~returned.fresh

\* A list of entities answered with status 200 and two headers has been
\* wrapped, and the same list answered with 201 has not.
C21_Witness ==
    /\ returned.made
    /\ upstream = ChoicesBody(dumps(List1(EntityA)))
    /\ returned.fresh
    /\ returned.status = 200
    /\ returned.headers = <<"content-type", "x-request-id">>
    /\ returned.body # upstream

(***************************************************************************)
(*                       Claims about routing                              *)
(***************************************************************************)

Routed == request # NoRequest

\* The body is a JSON object whose model field equals the fast model.
ModelFieldIsFast ==
    LET loaded == _original_json_loads(request.content)
    IN /\ request.content # Undecodable
       /\ loaded.ok
       /\ loaded.val.k = "dict"
       /\ \E i \in DOMAIN loaded.val.v :
             /\ loaded.val.v[i].key = <<"model">>
             /\ loaded.val.v[i].val = JStr(routing.fast_model)

\* C22: the request is rewritten exactly when its body is a JSON object
\* whose model field equals the configured fast model: then scheme, host
\* and port are those of the fast backend, path, query, method and body
\* are kept and Authorization is Bearer <fast key>; in every other case
\* the request is forwarded unchanged.
C22_RoutingDecision ==
    Routed =>
        IF ModelFieldIsFast
        THEN /\ forwarded.url.scheme = routing.fast_base_url.scheme
             /\ forwarded.url.netloc = routing.fast_base_url.netloc
             /\ forwarded.url.path = request.url.path
             /\ forwarded.url.query = request.url.query
             /\ forwarded.method = request.method
             /\ forwarded.content = request.content
             /\ forwarded.authorization = Bearer(routing.fast_api_key)
        ELSE forwarded = request

(***************************************************************************)
(*        Claims about the order and the outcome of processing             *)
(***************************************************************************)

\* Task i is the deferred task of a /memory/append request and has started.
DeferredStarted(i) == ~tasks[i].retry /\ tasks[i].pc # "start"

\* C23: whenever the deferred add_episode task of an acknowledged
\* /memory/append request has started, a Pending record for that user and
\* text has been written to the store before.
C23_PendingBeforeProcessing ==
    \A i \in DOMAIN tasks :
        (DeferredStarted(i) /\ requests[tasks[i].req].ok)
            => requests[tasks[i].req].saved

\* The file name of the Pending record task i works for, as the request
\* gave it.
PendingFileName(i) == requests[tasks[i].req].file_name

\* C24: the processed Episode created for a Pending record with a file
\* name is tagged with that file name, whether the initial deferred task
\* or a retry submitted by the sweep produced it.
C24_EpisodeCarriesFileName ==
    \A i \in DOMAIN tasks :
        (tasks[i].pc = "done" /\ PendingFileName(i) # NoFile)
            => \E e \in episodic :
                  e.name = i /\ e.file_name = PendingFileName(i)

\* The processed Episodes created for ingest request r, by its deferred
\* task or by a retry of its Pending record.
EpisodesOf(r) == {e \in episodic : tasks[e.name].req = r}

\* C25: under every interleaving of the deferred task and the sweeps at
\* most one processed Episode is created for one ingest request, and
\* once it is there and no attempt is running the Pending record is gone.
C25_ReplacedExactlyOnce ==
    \A r \in DOMAIN requests :
        /\ Cardinality(EpisodesOf(r)) <= 1
        /\ (EpisodesOf(r) # {}
              /\ \A i \in DOMAIN tasks :
                    tasks[i].req = r => tasks[i].pc \in {"done", "failed"})
             => ~HasPendingRecord(r)

(***************************************************************************)
(*                 Claims about restoring under a new id                   *)
(***************************************************************************)

\* The last restore ended with status success.
Restored == call.made /\ response.status = "success"

ArchiveEpisodes == StreamItems(call.archive.episodes)

ArchiveUser == call.archive.metadata.user_id

\* new_user_id is given and differs from the archive's user id.
Renaming == call.new_user_id # NoUser /\ call.new_user_id # ArchiveUser

\* The record with the prefix of its name and its group_id moved to the
\* new id, and nothing else touched.
RenamedRecord(ep) ==
    [ep EXCEPT
        !.name = IF StartsWith(@, UserPrefix(ArchiveUser))
                 THEN UserPrefix(call.new_user_id)
                         \o SubSeq(@, Len(ArchiveUser) + 2, Len(@))
                 ELSE @,
        !.group_id = IF @ = ArchiveUser THEN call.new_user_id ELSE @]

ExpectedEpisode(ep) == IF Renaming THEN RenamedRecord(ep) ELSE ep

KnownBefore(ep) == \E n \in before.episodes : n.uuid = ep.uuid

DeletedOk == call.made /\ response.status = "true"

\* The episodes the last deletion removed.
DeletedEpisodes == {e.uuid : e \in before.episodes} \ {e.uuid : e \in store.episodes}

\* The episodes of st that mention entity id.
Mentioning(st, id) ==
    {r.src : r \in {x \in st.rels : x.type = "MENTIONS" /\ x.dst = id}}

\* C27: after a deletion that returned true the store holds no Entity that
\* only deleted episodes mentioned and no RELATES_TO edge with an end that
\* no remaining episode mentions; an entity that another episode still
\* mentions is kept.
C27_OrphansPruned ==
    DeletedOk =>
        /\ \A n \in before.entities :
              (Mentioning(before, n.uuid) # {}
                  /\ Mentioning(before, n.uuid) \subseteq DeletedEpisodes)
                 => n \notin store.entities
        /\ \A r \in store.rels :
              r.type = "RELATES_TO" =>
                  (Mentioning(store, r.src) # {} /\ Mentioning(store, r.dst) # {})
        /\ \A n \in before.entities :
              ~(Mentioning(before, n.uuid) \subseteq DeletedEpisodes)
                 => n \in store.entities

\* Episode 1 is deleted: entity 1, which it alone mentioned, goes with its
\* fact; entity 2, which episode 2 mentions too, stays.
C27_Witness ==
    /\ DeletedOk
    /\ DeletedEpisodes = {EpisodeId(1)}
    /\ Mentioning(before, EntityId(1)) = {EpisodeId(1)}
    /\ Mentioning(before, EntityId(2)) = {EpisodeId(1), EpisodeId(2)}
    /\ RelatesToRel(1, 2) \in before.rels
    /\ EntityNode(1) \notin store.entities
    /\ EntityNode(2) \in store.entities
    /\ RelatesToRel(1, 2) \notin store.rels

\* The last delete_user returned true and its user has sent no
\* /memory/append since.
DeletedFor(u) ==
    /\ call.made
    /\ call.op = "delete_user"
    /\ call.user_id = u
    /\ response.status = "true"
    /\ \A r \in DOMAIN requests :
          r > call.requests => requests[r].user_id # u

\* C28: after delete_user(U) returned true, and as long as U does not
\* ingest again, the store holds no processed and no pending episode of U.
C28_DeletionPermanent ==
    \A u \in Users :
        DeletedFor(u) =>
            /\ \A e \in episodic : e.group_id # u
            /\ \A p \in pendingStore : p.user_id # u

(***************************************************************************)
(*                     Claims about the retry loop of main.py              *)
(***************************************************************************)

\* This step is an iteration of the retry loop.
Swept == sweeper'.sweeps = sweeper.sweeps + 1

\* This step starts a retry task for the Pending record p.
Resubmitted(p) ==
    \E i \in DOMAIN tasks' :
        /\ i \notin DOMAIN tasks
        /\ tasks'[i].retry
        /\ tasks'[i].user_id = p.user_id
        /\ tasks'[i].text = p.content

\* Every Pending record older than the threshold is re-submitted by this
\* step.
AllStuckResubmitted ==
    \A p \in pendingStore : p.old => Resubmitted(p)

CallOver == tpc \in {"returned", "raised"}

\* Every attempt so far failed retryably: 5xx, 429 or an exception.
AllRetryable ==
    \A k \in DOMAIN history :
        \/ history[k].kind = "exception"
        \/ history[k].status >= 500
        \/ history[k].status = 429

\* C30: every call ends, and it makes at most 7 upstream attempts and 6
\* sleeps, also when every attempt fails retryably.
C30_CallTerminates ==
    /\ [](attempts <= 7 /\ sleeps <= 6)
    /\ <>CallOver

\* Seven attempts at 0, 5, ..., 30 s, all failing retryably, six sleeps
\* between them, and the call is over.
C30_Witness ==
    /\ CallOver
    /\ AllRetryable
    /\ attempts = 7
    /\ sleeps = 6
    /\ now = TIMEOUT

(***************************************************************************)
(*             Claims about the outcome of an exhausted budget             *)
(***************************************************************************)

\* Attempt k raised a transport exception.
Raised(k) == history[k].kind = "exception"

\* Attempt k produced a response the loop retries on: 5xx or 429.
FailedResponse(k) ==
    /\ history[k].kind = "response"
    /\ history[k].status >= 500 \/ history[k].status = 429

\* C31: the outcome of an exhausted budget is that of the last attempt.  An
\* exception raised at 30 s or later propagates, whatever came before; a
\* failing response received at 30 s or later is the response returned; an
\* exception raised before 30 s never propagates and is followed by one
\* sleep and another attempt.
C31_LastAttemptDecides ==
    LET n == Len(history) IN
    /\ tpc = "raised" => (n >= 1 /\ Raised(n) /\ history[n].ended >= TIMEOUT)
    /\ (n >= 1 /\ Raised(n) /\ history[n].ended >= TIMEOUT) => tpc = "raised"
    /\ (n >= 1 /\ FailedResponse(n) /\ history[n].ended >= TIMEOUT)
          => (tpc = "returned" /\ result = n)
    /\ \A k \in 1..n :
          (Raised(k) /\ history[k].ended < TIMEOUT)
             => IF k = n
                THEN \/ tpc = "sleeping" /\ sleeps = n - 1
                     \/ /\ tpc = "attempt"
                        /\ sleeps = n
                        /\ now = history[n].ended + RETRY_INTERVAL
                ELSE /\ history[k + 1].started
                            = history[k].ended + RETRY_INTERVAL
                     /\ sleeps >= k

\* A 503, a sleep, an exception before 30 s, a sleep, and an exception at
\* 30 s or later: the call raises although a response had been received.
C31_Witness ==
    /\ tpc = "raised"
    /\ Len(history) = 3
    /\ FailedResponse(1)
    /\ Raised(2) /\ history[2].ended < TIMEOUT
    /\ Raised(3) /\ history[3].ended >= TIMEOUT
    /\ sleeps = 2

(***************************************************************************)
(*                Claims that compare the two response shapes              *)
(***************************************************************************)

\* The content handed back when c is the content of a response of the
\* other shape.
OtherShapeOut(c) ==
    IF ChatShape
    THEN InterceptResponse(OutputBody(<<Message(c)>>)).body.output.items[1].text.v
    ELSE InterceptResponse(ChoicesBody(c)).body.choices.items[1].text.v

\* C32: the content handed back for a text in choices[0].message.content
\* equals the content handed back for the same text in
\* output[i].content[0].text.
C32_ShapesAgree ==
    (ChatShape \/ OutputShape) => ContentOut = OtherShapeOut(ContentIn)

\* C33: normalizing the content handed back changes nothing.
C33_Idempotent ==
    (ChatShape \/ OutputShape) => DirectOut(ContentOut) = ContentOut

(***************************************************************************)
(*                  Claims about the replaced json.loads                   *)
(***************************************************************************)

\* C34: on a text the original json.loads accepts, the replacement does
\* not fail and returns the value the original returns.
C34_PatchTransparent ==
    (call.made /\ _original_json_loads(call.s).ok) =>
        /\ response.value.ok
        /\ response.value.val = _original_json_loads(call.s).val

(***************************************************************************)
(*                 Claims about routing and the retry loop                 *)
(***************************************************************************)

\* C35: every upstream attempt of a call, retries included, sends the
\* request the routing produced once before the loop: same URL, same
\* Authorization header, same body.
C35_RoutedOnce ==
    \A k \in DOMAIN history :
        /\ history[k].sent = Route(request, routing)
        /\ history[k].sent.url = history[1].sent.url
        /\ history[k].sent.authorization = history[1].sent.authorization
        /\ history[k].sent.content = history[1].sent.content

\* A request for the fast model was rewritten and sent three times: after
\* a 503 and after an exception.
C35_Witness ==
    /\ Len(history) = 3
    /\ forwarded # request
    /\ forwarded.url # request.url
    /\ history[1].kind = "response" /\ history[1].status = 503
    /\ history[2].kind = "exception"
    /\ history[3].sent = forwarded
    /\ tpc \in {"returned", "raised"}

(***************************************************************************)
(*                      Claims about user isolation                        *)
(***************************************************************************)

\* The archive is the one create_backup has just written for a user.
Exported == origin.exported /\ archive.episodes.kind = "json"

\* C36: an export scoped to user U holds only episodes that were ingested
\* with user id U, also when U followed by _ is a prefix of another id.
C36_UserIsolation ==
    Exported =>
        \A i \in DOMAIN archive.episodes.items :
            archive.episodes.items[i].group_id = origin.user_id

(***************************************************************************)
(*                 Claims about deleting a listed episode                  *)
(***************************************************************************)

\* The last delete_episode was for a listed uuid and returned true.
ListedDeleted ==
    /\ call.made
    /\ call.op = "delete_episode"
    /\ response.status = "true"

\* The episodes written after the deletion from the Pending record with
\* this uuid.
WrittenLater(episode_uuid) ==
    {e \in episodic :
        /\ e.name \notin call.written
        /\ <<"pending", tasks[e.name].req>> = episode_uuid}

\* C37: after delete_episode returned true for a listed uuid, processed
\* or pending, no listed episode has that uuid and no processed Episode is
\* written later from it.
C37_ListedEpisodeDeleted ==
    ListedDeleted =>
        /\ call.episode_uuid \notin ListedUuids
        /\ WrittenLater(call.episode_uuid) = {}

(***************************************************************************)
(*                      Claims about reprocessing                          *)
(***************************************************************************)

\* reprocess_user has returned its counters.
Reprocessed == call.made /\ call.op = "reprocess_user" /\ call.pc = "returned"

\* C38: after reprocess_user returned, every episode the user had before
\* the call has its text in a processed Episode or in a Pending record,
\* and processed + errors = total_episodes.
C38_NoContentLost ==
    Reprocessed =>
        /\ \A e \in call.present :
              \/ \E x \in episodic : x.content = e.content
              \/ \E p \in pendingStore : p.content = e.content
        /\ response.processed + response.errors = response.total_episodes

(***************************************************************************)
(*               Claims about the reported status of a restore             *)
(***************************************************************************)

\* The last restore_backup has returned.
RestoreReturned == call.made /\ response.status \in {"success", "error"}

\* C39: a restore that reports error has left the store as it was; a
\* restore that reports success has every entity and episode of the
\* archive in the store, and every edge whose endpoints exist.
C39_AllOrNothing ==
    RestoreReturned =>
        /\ response.status = "error" => store = before
        /\ response.status = "success" =>
              LET eps == StreamItems(call.archive.episodes)
                  ens == StreamItems(call.archive.entities)
                  eds == StreamItems(call.archive.edges)
              IN /\ \A i \in DOMAIN eps :
                        \E e \in store.episodes : e.uuid = eps[i].uuid
                 /\ \A i \in DOMAIN ens :
                        \E n \in store.entities : n.uuid = ens[i].uuid
                 /\ \A i \in DOMAIN eds :
                        ((\E n \in store.entities :
                              n.uuid = eds[i].source_uuid)
                         /\ (\E n \in store.entities :
                                n.uuid = eds[i].target_uuid))
                           => MatchingRels(store.rels, eds[i]) # {}

(***************************************************************************)
(*                Claims about the id /memory/append returns               *)
(***************************************************************************)

\* C40: the id a /memory/append call returned is the uuid of the Pending
\* record written for that call, under which the episode is listed while
\* it is pending.
C40_IdIsPendingUuid ==
    \A r \in DOMAIN requests :
        \A p \in pendingStore :
            p.uuid = r =>
                /\ requests[r].id = PendingUuid(p)
                /\ \E l \in get_user_episodes(requests[r].user_id) :
                       l.status = "pending" /\ l.uuid = requests[r].id

====
